---- MODULE Spec2Model ----
(***************************************************************************)
(* lmcs-db: the storage and consistency engine.                            *)
(*                                                                         *)
(* The specifications of this module:                                      *)
(*   SpecDb      class Database (core/database.ts, first half) over the    *)
(*               MemoryStorage: the txLock promise chain, the transaction  *)
(*               manager and the TransactionContext with getData.          *)
(*   SpecLive    the same calls with storage failures at begin, commit and *)
(*               rollback, under fairness.                                 *)
(*   SpecCounter the same handle running the "read the counter, write      *)
(*               value+1" bodies of test/query.test.ts.                    *)
(*   SpecRyw     the same handle running bodies that update one document   *)
(*               twice.                                                    *)
(*   SpecLmcs    class LmcsDB (core/database.ts, second half) with         *)
(*               SecureCollection, IndexManager and the JSON storage,      *)
(*               including crash, close and reopen.                        *)
(*   SpecAol     class AOLStorage (storage/aol.ts): write buffer, flush,   *)
(*               compaction, crash and reopen.                             *)
(*   SpecStream  AOLStorage append and readStream.                         *)
(*   SpecTxAol   LmcsDB.transaction over the AOLStorage.                   *)
(*   SpecSum     the checksums of the two AOLStorage versions              *)
(*               (storage/aol.ts and unnamed/part_013): append, damage on  *)
(*               disk, readStream.                                         *)
(*   SpecQuery   SecureCollection.matchesFilter, findAll and findStream    *)
(*               over the products of test/query.test.ts.                  *)
(*   SpecTimers  one handle (Database or LmcsDB) over a JSONStorage        *)
(*               (storage/json.ts or unnamed/part_006) or the AOLStorage:  *)
(*               initialize, append, the storage timer, close.             *)
(*   SpecUpd     SecureCollection insert, update, remove and createIndex   *)
(*               over the JSON storage, started with one stored document.  *)
(*   SpecTxFail  LmcsDB.transaction over an AOLStorage whose flush can     *)
(*               reject.                                                   *)
(*   SpecKey     one handle over a storage that rewrites its file          *)
(*               (BinaryStorage of unnamed/part_011, the JSONStorages) on  *)
(*               a file of its own or of another key.                      *)
(*   SpecWorker  AsyncWriteWorker (persistence/AsyncWriteWorker.ts):       *)
(*               enqueue, process, flush.                                  *)
(***************************************************************************)
EXTENDS Integers, Sequences, FiniteSets, TLC

\* ------------------------------------------------------------------ bounds
NumTx == 2        \* concurrent transaction() calls
MaxBody == 2      \* statements one transaction body executes
MaxVal == 1       \* largest value of the payload field
MaxDirect == 1    \* Database: collection writes issued outside any transaction
NumWriters == 2   \* LmcsDB: tasks calling SecureCollection methods
MaxCalls == 2     \* LmcsDB: client calls (begin, trx.*, collection writes) per run
MaxReopen == 1    \* times the database is closed or killed and reopened
NumTasks == 2     \* AOLStorage: tasks calling append, flush and compact
MaxAppends == 4   \* AOLStorage: entries appended per run
BufferSize == 2   \* AOLStorage: config.bufferSize
MaxFlushes == 2   \* AOLStorage: flush() calls made by clients
MaxCompact == 1   \* AOLStorage: compact() calls
MaxEnqueue == 4   \* AsyncWriteWorker: enqueue() calls per run
NumFlushers == 2  \* AsyncWriteWorker: callers of flush()

\* Transaction ids (uuid strings), collection names, document ids.
TxId(n) == "t" \o ToString(n)
Tx == {TxId(n) : n \in 1..NumTx}
Cols == {"accounts"}
Ids == {"a", "b"}
Undef == "undefined"
NoTx == "none"
NoVal == 0 - 1

\* A document: the reserved key _id and one payload field f; a key that the
\* object does not have holds Undef (_id) or NoVal (f).
Fields == {"_id", "f"}
MkDoc(i, v) == [k \in Fields |-> IF k = "_id" THEN i ELSE v]
Missing(k) == IF k = "_id" THEN Undef ELSE NoVal
\* { ...current, ...data }: the keys present in data override those of current.
Merge(cur, upd) == [k \in Fields |-> IF upd[k] # Missing(k) THEN upd[k] ELSE cur[k]]
\* A value that may be undefined is a set: {} for undefined, {x} for x.
Absent == {}

\* LogEntry (storage/base.ts): checksum and timestamp carry no behaviour here.
Entry(o, c, i, d, t) == [op |-> o, collection |-> c, id |-> i, data |-> d, txId |-> t]
TxCollection == "_transactions"
EmptyObj == MkDoc(Undef, NoVal)
Envelope(o, t) == Entry(o, TxCollection, t, Absent, t)

VARIABLES
  pc,        \* where each transaction() call stands
  ops,       \* Transaction.operations of each transaction
  active,    \* keys of TransactionManager.activeTransactions
  cursor,    \* commit(): index of the next operation to append
  steps,     \* statements the body has executed
  err,       \* the error the body threw
  result,    \* what the transaction() promise settled with
  log,       \* the storage's entry list (MemoryStorage.logs / JSONStorage.data)
  dirty,     \* JSONStorage.dirty
  flushing,  \* a JSONStorage.flush() is between writeFile and dirty = false
  disk,      \* entries held by the database file
  backend,   \* storage type of the handle
  opened,    \* keys of the handle's collections map
  data,      \* collection name -> _id -> document
  indexes,   \* IndexManager.indexes: collection -> pairs <<valueKey, id>>
  indexDefs, \* IndexManager.indexDefs: the index on field f of each collection
  txLock,    \* Database.txLock: the call whose promise is the chain's tail
  waitsOn,   \* currentLock captured by each call
  released,  \* calls whose releaseLock() has run
  local,     \* the document a body read with findOne
  snap,      \* data as the transaction found it, amended by writes made outside it
  nDirect,   \* collection writes issued outside transactions so far
  handle,    \* the handle: "new", "open", "closing", "closed", "crashed", "failed", "stuck"
  wpc,       \* where each SecureCollection caller stands
  wreg,      \* the write a caller has appended but not yet applied
  wres,      \* what the caller's last call settled with
  nWrites,   \* SecureCollection write calls so far
  nReopen,   \* reopens so far
  buffer,    \* AOLStorage.buffer
  file,      \* the .aol file: its lines, each the entries written on it
  eol,       \* the file is empty or ends with a newline
  appended,  \* every entry handed to append(), in order
  apc,       \* where each AOLStorage caller stands
  areg,      \* the call a task is in
  returned,  \* entries whose append() has returned in this process
  durable,   \* entries appended before a flush() that has returned
  recovered, \* what the last reopen read from the file
  nFlushes,  \* client flush() calls so far
  nCompact,  \* compact() calls so far
  impl,      \* the source file of the storage class in use
  tampered,  \* lines of the .aol file changed on disk after they were written
  stream,    \* what the last readStream() yielded, skipped and threw
  query,     \* the QueryOptions handed to findAll and findStream
  found,     \* what findAll(query) resolved with
  streamed,  \* what findStream(query) yielded, read to its end
  klass,     \* the class of the handle: "Database" or "LmcsDB"
  interval,  \* options.autosaveInterval (JSON) or compactionInterval (AOL)
  foreign,   \* the database file was encrypted with another key
  locked,    \* FileLocker.locks holds the handle's lockPath
  initialized, \* the handle's initialized field
  timer,     \* the storage's setInterval timer is armed
  writing,   \* AsyncWriteWorker.writing
  pendingPayload, \* AsyncWriteWorker.pendingPayload
  resolveIdle,    \* AsyncWriteWorker.resolveIdle: the flush() call it resolves
  enqueuedCount,  \* AsyncWriteWorker.enqueuedCount
  inFlight,  \* payloads handed to writeFn calls that have not settled
  immediates, \* setImmediate callbacks scheduled and not yet run
  flushers   \* where each caller of AsyncWriteWorker.flush() stands

txVars == <<pc, ops, active, cursor, steps, err, result>>
stVars == <<log, dirty, flushing, disk, backend>>
colVars == <<opened, data, indexes, indexDefs>>
dbVars == <<txLock, waitsOn, released, local, snap, nDirect>>
lmVars == <<handle, wpc, wreg, wres, nWrites, nReopen>>
sumVars == <<tampered, stream>>
qryVars == <<query, found, streamed>>
lifeVars == <<klass, interval, foreign, locked, initialized, timer>>
wwVars == <<writing, pendingPayload, resolveIdle, enqueuedCount, inFlight, immediates,
            flushers>>
extVars == <<impl, sumVars, qryVars, lifeVars, wwVars>>
aolVars == <<buffer, file, eol, appended, apc, areg, returned, durable, recovered,
             nFlushes, nCompact, extVars>>
vars == <<txVars, stVars, colVars, dbVars, lmVars, aolVars>>

Writers == 1..NumWriters
Tasks == 1..NumTasks
NoCall == [kind |-> "none", n |-> 0, covers |-> {}, read |-> <<>>]
EmptyData == [c \in Cols |-> [i \in Ids |-> Absent]]
NoWrite == [kind |-> "none", col |-> Undef, id |-> Undef, old |-> Absent, new |-> Absent,
            at |-> 0]

\* ------------------------------------------------------------ storage
\* storage.append(entry): MemoryStorage pushes; JSONStorage pushes and marks
\* the list dirty (its autosave timer is always armed, so no flush here).
StorageAppend(e) ==
  /\ log' = Append(log, e)
  /\ dirty' = (dirty \/ backend = "json")
  /\ UNCHANGED <<flushing, disk, backend>>

\* ------------------------------------------------------------ TransactionManager
\* Operation (core/transaction.ts): previousData is never read by the engine.
Operation(ty, c, i, nd) == [type |-> ty, collection |-> c, id |-> i, newData |-> nd]

StorageOp(ty) == CASE ty = "insert" -> "INSERT" [] ty = "update" -> "UPDATE" [] OTHER -> "DELETE"

\* TransactionManager.begin: register the transaction, append the BEGIN envelope.
TmBegin(t) ==
  /\ active' = active \cup {t}
  /\ ops' = [ops EXCEPT ![t] = <<>>]
  /\ StorageAppend(Envelope("BEGIN", t))

\* (variant of AddOperation that writes through to the collection at once)
AddOperationEager(t, op) ==
  /\ t \in active
  /\ ops' = [ops EXCEPT ![t] = Append(@, op)]
  /\ data' = [data EXCEPT ![op.collection][op.id] =
                 IF op.type = "delete" THEN Absent ELSE op.newData]
  /\ UNCHANGED stVars
\* TransactionManager.addOperation as reached from the context: only the
\* in-memory operation list grows.
AddOperation(t, op) ==
  /\ t \in active
  /\ ops' = [ops EXCEPT ![t] = Append(@, op)]
  /\ UNCHANGED <<stVars, data>>

\* One iteration of commit()'s loop: data is op.newData || {}.
CommitEntry(t, op) ==
  Entry(StorageOp(op.type), op.collection, op.id,
        IF op.newData = Absent THEN {EmptyObj} ELSE op.newData, t)

\* TransactionManager.rollback: nothing happens for an unknown transaction.
TmRollback(t) ==
  IF t \in active
    THEN /\ StorageAppend(Envelope("ROLLBACK", t))
         /\ active' = active \ {t}
    ELSE UNCHANGED <<stVars, active>>

\* SecureCollection.loadFromLog on the data map.
ApplyEntry(d, e) ==
  IF e.collection \notin Cols THEN d
  ELSE IF e.op \in {"INSERT", "UPDATE"} THEN [d EXCEPT ![e.collection][e.id] = e.data]
  ELSE IF e.op = "DELETE" THEN [d EXCEPT ![e.collection][e.id] = Absent]
  ELSE d

\* Collection.applyLogEntry of the Database handle.
CollectionApplyLogEntry(d, e) == ApplyEntry(d, e)

\* ------------------------------------------------------------ Database.transaction
\* The promise txLock of call t: resolved once every call chained before it and
\* t itself have released.
RECURSIVE ChainResolved(_)
ChainResolved(t) ==
  IF t = NoTx THEN TRUE ELSE t \in released /\ ChainResolved(waitsOn[t])

\* (variant of LockAcquired that does not wait for the chain)
LockFree(t) == TRUE
\* await currentLock
LockAcquired(t) == ChainResolved(waitsOn[t])

\* transaction(): chain behind txLock and wait.
DbCall(t) ==
  /\ pc[t] = "idle"
  /\ pc' = [pc EXCEPT ![t] = "waiting"]
  /\ waitsOn' = [waitsOn EXCEPT ![t] = txLock]
  /\ txLock' = t
  /\ UNCHANGED <<ops, active, cursor, steps, err, result, stVars, colVars,
                 released, local, snap, nDirect, lmVars, aolVars>>

\* On its turn: txManager.begin(), then the body is invoked with a context.
DbBegin(t) ==
  /\ pc[t] = "waiting"
  /\ LockAcquired(t)
  /\ TmBegin(t)
  /\ pc' = [pc EXCEPT ![t] = "body"]
  /\ snap' = [snap EXCEPT ![t] = data]
  /\ UNCHANGED <<cursor, steps, err, result, colVars, txLock, waitsOn, released,
                 local, nDirect, lmVars, aolVars>>

InBody(t) == pc[t] = "body" /\ steps[t] < MaxBody

\* trx.insert(collection, data)
TrxInsert(t, c, i, v) ==
  /\ InBody(t)
  /\ AddOperation(t, Operation("insert", c, i, {MkDoc(i, v)}))
  /\ steps' = [steps EXCEPT ![t] = @ + 1]
  /\ UNCHANGED <<pc, active, cursor, err, result, opened, indexes, indexDefs,
                 dbVars, lmVars, aolVars>>

\* trx.update(collection, id, data): getData opens the collection and reads the
\* committed document; a missing document makes the body throw.
TrxUpdate(t, c, i, upd) ==
  /\ InBody(t)
  /\ opened' = opened \cup {c}
  /\ steps' = [steps EXCEPT ![t] = @ + 1]
  /\ IF data[c][i] = Absent
       THEN /\ pc' = [pc EXCEPT ![t] = "rollback"]
            /\ err' = [err EXCEPT ![t] = "NotFound"]
            /\ UNCHANGED <<ops, stVars, data>>
       ELSE /\ AddOperation(t, Operation("update", c, i,
                                          {Merge(d, upd) : d \in data[c][i]}))
            /\ UNCHANGED <<pc, err>>
  /\ UNCHANGED <<active, cursor, result, indexes, indexDefs, dbVars, lmVars, aolVars>>

\* trx.delete(collection, id)
TrxDelete(t, c, i) ==
  /\ InBody(t)
  /\ AddOperation(t, Operation("delete", c, i, Absent))
  /\ steps' = [steps EXCEPT ![t] = @ + 1]
  /\ UNCHANGED <<pc, active, cursor, err, result, opened, indexes, indexDefs,
                 dbVars, lmVars, aolVars>>

\* The body throws.
BodyThrow(t) ==
  /\ pc[t] = "body"
  /\ pc' = [pc EXCEPT ![t] = "rollback"]
  /\ err' = [err EXCEPT ![t] = "BodyError"]
  /\ UNCHANGED <<ops, active, cursor, steps, result, stVars, colVars, dbVars, lmVars, aolVars>>

\* The body returns: commit() starts.
BodyReturn(t) ==
  /\ pc[t] = "body"
  /\ pc' = [pc EXCEPT ![t] = "committing"]
  /\ cursor' = [cursor EXCEPT ![t] = 1]
  /\ UNCHANGED <<ops, active, steps, err, result, stVars, colVars, dbVars, lmVars, aolVars>>

\* commit(): append the next operation to the storage.
CommitAppend(t) ==
  /\ pc[t] = "committing"
  /\ cursor[t] <= Len(ops[t])
  /\ StorageAppend(CommitEntry(t, ops[t][cursor[t]]))
  /\ cursor' = [cursor EXCEPT ![t] = @ + 1]
  /\ UNCHANGED <<pc, ops, active, steps, err, result, colVars, dbVars, lmVars, aolVars>>

\* commit(): append the COMMIT envelope, drop the transaction, return the list.
CommitEnvelope(t) ==
  /\ pc[t] = "committing"
  /\ cursor[t] > Len(ops[t])
  /\ StorageAppend(Envelope("COMMIT", t))
  /\ active' = active \ {t}
  /\ pc' = [pc EXCEPT ![t] = "committed"]
  /\ UNCHANGED <<ops, cursor, steps, err, result, colVars, dbVars, lmVars, aolVars>>

\* The loop after commit(): each operation whose collection is in the handle's
\* map is applied to it.
RECURSIVE ApplyOps(_, _, _, _)
ApplyOps(d, os, t, known) ==
  IF os = <<>> THEN d
  ELSE LET op == Head(os)
           e == Entry(StorageOp(op.type), op.collection, op.id, op.newData, t)
       IN ApplyOps(IF op.collection \in known THEN CollectionApplyLogEntry(d, e) ELSE d,
                   Tail(os), t, known)

\* Update the in-memory state, return the result; finally releaseLock().
DbApply(t) ==
  /\ pc[t] = "committed"
  /\ data' = ApplyOps(data, ops[t], t, opened)
  /\ pc' = [pc EXCEPT ![t] = "resolved"]
  /\ result' = [result EXCEPT ![t] = "ok"]
  /\ released' = released \cup {t}
  /\ UNCHANGED <<ops, active, cursor, steps, err, stVars, opened, indexes, indexDefs,
                 txLock, waitsOn, local, snap, nDirect, lmVars, aolVars>>

\* catch: txManager.rollback(txId), rethrow; finally releaseLock().
DbRollback(t) ==
  /\ pc[t] = "rollback"
  /\ TmRollback(t)
  /\ pc' = [pc EXCEPT ![t] = "rejected"]
  /\ result' = [result EXCEPT ![t] = err[t]]
  /\ released' = released \cup {t}
  /\ UNCHANGED <<ops, cursor, steps, err, colVars, txLock, waitsOn, local, snap,
                 nDirect, lmVars, aolVars>>

\* db.collection(c).insert(doc) outside any transaction: duplicate ids are
\* rejected, the INSERT entry is appended, then the data map is set.
ColInsert(c, i) ==
  /\ nDirect < MaxDirect
  /\ nDirect' = nDirect + 1
  /\ opened' = opened \cup {c}
  /\ IF data[c][i] # Absent
       THEN UNCHANGED <<stVars, data, snap>>
       ELSE /\ StorageAppend(Entry("INSERT", c, i, {MkDoc(i, 0)}, NoTx))
            /\ data' = [data EXCEPT ![c][i] = {MkDoc(i, 0)}]
            /\ snap' = [t \in Tx |-> IF pc[t] \in {"body", "rollback"}
                                       THEN [snap[t] EXCEPT ![c][i] = {MkDoc(i, 0)}]
                                       ELSE snap[t]]
  /\ UNCHANGED <<txVars, indexes, indexDefs, txLock, waitsOn, released, local, lmVars, aolVars>>

InitTx ==
  /\ pc = [t \in Tx |-> "idle"]
  /\ ops = [t \in Tx |-> <<>>]
  /\ active = {}
  /\ cursor = [t \in Tx |-> 0]
  /\ steps = [t \in Tx |-> 0]
  /\ err = [t \in Tx |-> Undef]
  /\ result = [t \in Tx |-> Undef]

\* No transaction() of the Database handle has been called.
InitLock ==
  /\ txLock = NoTx
  /\ waitsOn = [t \in Tx |-> NoTx]
  /\ released = {}
  /\ local = [t \in Tx |-> Absent]
  /\ snap = [t \in Tx |-> EmptyData]
  /\ nDirect = 0

\* No SecureCollection call is in flight on an open handle.
InitHandle ==
  /\ handle = "open"
  /\ wpc = [w \in Writers |-> "idle"]
  /\ wreg = [w \in Writers |-> NoWrite]
  /\ wres = [w \in Writers |-> Undef]
  /\ nWrites = 0
  /\ nReopen = 0

InitIndexes ==
  /\ indexes = [c \in Cols |-> {}]
  /\ indexDefs = [c \in Cols |-> "none"]

\* An initialized AOLStorage on a path without a file.
InitAol ==
  /\ buffer = <<>>
  /\ file = <<>>
  /\ eol = TRUE
  /\ appended = <<>>
  /\ apc = [k \in Tasks |-> "idle"]
  /\ areg = [k \in Tasks |-> NoCall]
  /\ returned = {}
  /\ durable = {}
  /\ recovered = <<>>
  /\ nFlushes = 0
  /\ nCompact = 0

\* The storage is the one of src/storage; no readStream() has been made.
NoStream == [done |-> FALSE, yielded |-> <<>>, skipped |-> {}, error |-> {}]

\* An LmcsDB handle after initialize() on a path without a file.
InitOpen ==
  /\ klass = "LmcsDB"
  /\ interval = 5000
  /\ foreign = FALSE
  /\ locked = TRUE
  /\ initialized = TRUE
  /\ timer = TRUE

\* An AsyncWriteWorker just constructed; no flush() call has been made.
Flushers == 1..NumFlushers
IdleWorker ==
  /\ writing = FALSE
  /\ pendingPayload = {}
  /\ resolveIdle = {}
  /\ enqueuedCount = 0
  /\ inFlight = {}
  /\ immediates = 0
  /\ flushers = [f \in Flushers |-> "idle"]

NoQuery == [filter |-> {}, sort |-> <<>>, skip |-> 0, limit |-> 0]

InitExt ==
  /\ impl = "aol.ts"
  /\ tampered = {} /\ IdleWorker
  /\ stream = NoStream
  /\ query = NoQuery
  /\ found = {}
  /\ streamed = {}
  /\ InitOpen

InitDb ==
  /\ InitTx /\ InitLock /\ InitHandle /\ InitIndexes /\ InitAol /\ InitExt
  /\ log = <<>> /\ dirty = FALSE /\ flushing = FALSE /\ disk = <<>>
  /\ backend = "memory"
  /\ opened = {}
  /\ data = EmptyData

NextDb ==
  \/ \E t \in Tx : DbCall(t)
  \/ \E t \in Tx : DbBegin(t)
  \/ \E t \in Tx, c \in Cols, i \in Ids, v \in 1..MaxVal : TrxInsert(t, c, i, v)
  \/ \E t \in Tx, c \in Cols, i \in Ids, v \in 1..MaxVal : TrxUpdate(t, c, i, MkDoc(Undef, v))
  \/ \E t \in Tx, c \in Cols, i \in Ids : TrxDelete(t, c, i)
  \/ \E t \in Tx : BodyThrow(t)
  \/ \E t \in Tx : BodyReturn(t)
  \/ \E t \in Tx : CommitAppend(t)
  \/ \E t \in Tx : CommitEnvelope(t)
  \/ \E t \in Tx : DbApply(t)
  \/ \E t \in Tx : DbRollback(t)
  \/ \E c \in Cols, i \in Ids : ColInsert(c, i)

SpecDb == InitDb /\ [][NextDb]_vars

\* ------------------------------------------------------------ failing storage calls
\* txManager.begin() rejects (its storage.append threw): the outer try has no
\* catch, the transaction stays registered; finally releaseLock().
BeginFail(t) ==
  /\ pc[t] = "waiting"
  /\ LockAcquired(t)
  /\ active' = active \cup {t}
  /\ pc' = [pc EXCEPT ![t] = "rejected"]
  /\ err' = [err EXCEPT ![t] = "BeginError"]
  /\ result' = [result EXCEPT ![t] = "BeginError"]
  /\ released' = released \cup {t}
  /\ UNCHANGED <<ops, cursor, steps, stVars, colVars, txLock, waitsOn, local, snap,
                 nDirect, lmVars, aolVars>>

\* txManager.commit() rejects: the catch block runs.
CommitFail(t) ==
  /\ pc[t] = "committing"
  /\ pc' = [pc EXCEPT ![t] = "rollback"]
  /\ err' = [err EXCEPT ![t] = "CommitError"]
  /\ UNCHANGED <<ops, active, cursor, steps, result, stVars, colVars, dbVars, lmVars, aolVars>>

\* (variant of RollbackFail in which the lock is not released)
RollbackFailKeepsLock(t) ==
  /\ pc[t] = "rollback"
  /\ t \in active
  /\ pc' = [pc EXCEPT ![t] = "rejected"]
  /\ result' = [result EXCEPT ![t] = "RollbackError"]
  /\ UNCHANGED <<ops, active, cursor, steps, err, stVars, colVars, dbVars, lmVars, aolVars>>
\* txManager.rollback() rejects inside the catch block: its error leaves the
\* call; finally releaseLock().
RollbackFail(t) ==
  /\ pc[t] = "rollback"
  /\ t \in active
  /\ pc' = [pc EXCEPT ![t] = "rejected"]
  /\ result' = [result EXCEPT ![t] = "RollbackError"]
  /\ released' = released \cup {t}
  /\ UNCHANGED <<ops, active, cursor, steps, err, stVars, colVars, txLock, waitsOn,
                 local, snap, nDirect, lmVars, aolVars>>

NextLive ==
  \/ \E t \in Tx : DbCall(t)
  \/ \E t \in Tx : DbBegin(t)
  \/ \E t \in Tx : BeginFail(t)
  \/ \E t \in Tx, c \in Cols, i \in Ids : TrxInsert(t, c, i, MaxVal)
  \/ \E t \in Tx, c \in Cols, i \in Ids : TrxUpdate(t, c, i, MkDoc(Undef, MaxVal))
  \/ \E t \in Tx : BodyThrow(t)
  \/ \E t \in Tx : BodyReturn(t)
  \/ \E t \in Tx : CommitAppend(t)
  \/ \E t \in Tx : CommitFail(t)
  \/ \E t \in Tx : CommitEnvelope(t)
  \/ \E t \in Tx : DbApply(t)
  \/ \E t \in Tx : DbRollback(t)
  \/ \E t \in Tx : RollbackFail(t)

\* Every awaited promise settles: a call that can take its next step takes it,
\* and a body returns or throws.
FairTx(t) ==
  /\ WF_vars(DbBegin(t) \/ BeginFail(t))
  /\ WF_vars(BodyReturn(t) \/ BodyThrow(t))
  /\ WF_vars(CommitAppend(t) \/ CommitEnvelope(t) \/ CommitFail(t))
  /\ WF_vars(DbApply(t))
  /\ WF_vars(DbRollback(t) \/ RollbackFail(t))

SpecLive == InitDb /\ [][NextLive]_vars /\ \A t \in Tx : FairTx(t)

\* ------------------------------------------------------------ the counter bodies
\* test/query.test.ts "should handle concurrent transactions": every body reads
\* the counter with findOne and writes value+1 through trx.update.
CounterCol == "accounts"
CounterId == "a"

\* const current = await counters.findOne({ _id: 'counter-1' })
BodyFind(t) ==
  /\ pc[t] = "body"
  /\ steps[t] = 0
  /\ local[t] = Absent
  /\ local' = [local EXCEPT ![t] = data[CounterCol][CounterId]]
  /\ opened' = opened \cup {CounterCol}
  /\ UNCHANGED <<txVars, stVars, data, indexes, indexDefs, txLock, waitsOn,
                 released, snap, nDirect, lmVars, aolVars>>

\* (current?.value || 0) + 1
NextValue(cur) == IF cur = Absent THEN 1 ELSE (CHOOSE d \in cur : TRUE).f + 1

\* await trx.update('counters', 'counter-1', { value: ... })
BodyIncr(t) ==
  /\ local[t] # Absent
  /\ steps[t] = 0
  /\ TrxUpdate(t, CounterCol, CounterId, MkDoc(Undef, NextValue(local[t])))

CounterReturn(t) == steps[t] = 1 /\ BodyReturn(t)

InitCounter ==
  /\ InitTx /\ InitLock /\ InitHandle /\ InitIndexes /\ InitAol /\ InitExt
  /\ \E v \in 0..MaxVal :
       /\ log = <<Entry("INSERT", CounterCol, CounterId, {MkDoc(CounterId, v)}, NoTx)>>
       /\ data = [EmptyData EXCEPT ![CounterCol][CounterId] = {MkDoc(CounterId, v)}]
  /\ dirty = FALSE /\ flushing = FALSE /\ disk = <<>>
  /\ backend = "memory"
  /\ opened = {CounterCol}

NextCounter ==
  \/ \E t \in Tx : DbCall(t)
  \/ \E t \in Tx : DbBegin(t)
  \/ \E t \in Tx : BodyFind(t)
  \/ \E t \in Tx : BodyIncr(t)
  \/ \E t \in Tx : CounterReturn(t)
  \/ \E t \in Tx : BodyThrow(t)
  \/ \E t \in Tx : CommitAppend(t)
  \/ \E t \in Tx : CommitEnvelope(t)
  \/ \E t \in Tx : DbApply(t)
  \/ \E t \in Tx : DbRollback(t)

SpecCounter == InitCounter /\ [][NextCounter]_vars

\* ------------------------------------------------------------ two updates in one body
\* A body that updates one document twice: trx.update(c, id, { f: v }) and then
\* trx.update(c, id, { _id: id }).
RywFirst(t, c, i, v) == steps[t] = 0 /\ TrxUpdate(t, c, i, MkDoc(Undef, v))

RywSecond(t) ==
  /\ steps[t] = 1
  /\ Len(ops[t]) = 1
  /\ TrxUpdate(t, ops[t][1].collection, ops[t][1].id, MkDoc(ops[t][1].id, NoVal))

\* Both documents exist with the same payload when the calls are made.
InitRyw ==
  /\ InitTx /\ InitLock /\ InitHandle /\ InitIndexes /\ InitAol /\ InitExt
  /\ \E v \in 0..MaxVal :
       /\ log = [k \in 1..2 |->
                   LET i == IF k = 1 THEN "a" ELSE "b"
                   IN Entry("INSERT", "accounts", i, {MkDoc(i, v)}, NoTx)]
       /\ data = [c \in Cols |-> [i \in Ids |-> {MkDoc(i, v)}]]
  /\ dirty = FALSE /\ flushing = FALSE /\ disk = <<>>
  /\ backend = "memory"
  /\ opened = Cols

NextRyw ==
  \/ \E t \in Tx : DbCall(t)
  \/ \E t \in Tx : DbBegin(t)
  \/ \E t \in Tx, c \in Cols, i \in Ids, v \in 0..MaxVal : RywFirst(t, c, i, v)
  \/ \E t \in Tx : RywSecond(t)
  \/ \E t \in Tx : BodyReturn(t)
  \/ \E t \in Tx : BodyThrow(t)
  \/ \E t \in Tx : CommitAppend(t)
  \/ \E t \in Tx : CommitEnvelope(t)
  \/ \E t \in Tx : DbApply(t)
  \/ \E t \in Tx : DbRollback(t)

SpecRyw == InitRyw /\ [][NextRyw]_vars

\* ------------------------------------------------------------ IndexManager
\* JSON.stringify(value) of a number.
ValueKey(v) == ToString(v)

\* indexDocument(collection, id, doc)
IndexDocument(ix, defs, c, i, doc) ==
  IF defs[c] = "none" \/ doc = Absent THEN ix
  ELSE LET d == CHOOSE x \in doc : TRUE
       IN IF d.f = NoVal THEN ix
          ELSE [ix EXCEPT ![c] = @ \cup {<<ValueKey(d.f), i>>}]

\* removeDocument(collection, id, doc)
RemoveDocument(ix, defs, c, i, doc) ==
  IF defs[c] = "none" \/ doc = Absent THEN ix
  ELSE LET d == CHOOSE x \in doc : TRUE
       IN IF d.f = NoVal THEN ix
          ELSE [ix EXCEPT ![c] = @ \ {<<ValueKey(d.f), i>>}]

\* queryByIndex(collection, { f: v }): the ids filed under v; empty stands for
\* null as well.
QueryByIndex(c, v) ==
  IF indexDefs[c] = "none" THEN {}
  ELSE {i \in Ids : <<ValueKey(v), i>> \in indexes[c]}

\* ------------------------------------------------------------ SecureCollection
\* Client calls made so far: collection writes, transactions begun and the
\* statements of their bodies.
RECURSIVE SumSteps(_)
SumSteps(S) == IF S = {} THEN 0
               ELSE LET t == CHOOSE x \in S : TRUE IN steps[t] + SumSteps(S \ {t})
Calls == nWrites + SumSteps(Tx) + Cardinality({t \in Tx : pc[t] # "idle"})
Budget == handle = "open" /\ Calls < MaxCalls

\* The call is served by the first idle task.
Quiet(w) ==
  /\ Budget
  /\ wpc[w] = "idle"
  /\ \A w2 \in Writers : w2 < w => wpc[w2] # "idle"

\* A call that settles without suspending on the storage.
Settle(w, r) ==
  /\ wres' = [wres EXCEPT ![w] = r]
  /\ UNCHANGED <<stVars, wpc, wreg>>

\* The call has appended its entry and waits for the storage.
Suspend(w, e, kind, old, new) ==
  /\ StorageAppend(e)
  /\ wpc' = [wpc EXCEPT ![w] = kind]
  /\ wreg' = [wreg EXCEPT ![w] = [kind |-> kind, col |-> e.collection, id |-> e.id,
                                  old |-> old, new |-> new, at |-> Len(log) + 1]]
  /\ UNCHANGED wres

\* JSONStorage.append settles without I/O: the calls awaiting it are resumed in
\* the order in which they appended.
Resumes(w, kind) ==
  /\ wpc[w] = kind
  /\ \A w2 \in Writers : wpc[w2] # "idle" => wreg[w].at <= wreg[w2].at

\* (variant of HasId that never finds the id)
HasIdNever(c, i) == FALSE
\* this.data.has(id)
HasId(c, i) == data[c][i] # Absent

\* insert(doc): the id check, the unique-index check, then storage.append.
ScInsertStart(w, c, i, v) ==
  /\ Quiet(w)
  /\ nWrites' = nWrites + 1
  /\ opened' = opened \cup {c}
  /\ IF HasId(c, i)
       THEN Settle(w, "DuplicateId")
       ELSE IF indexDefs[c] = "unique" /\ QueryByIndex(c, v) # {}
         THEN Settle(w, "UniqueConstraint")
         ELSE Suspend(w, Entry("INSERT", c, i, {MkDoc(i, v)}, NoTx), "insert",
                      Absent, {MkDoc(i, v)})
  /\ UNCHANGED <<txVars, data, indexes, indexDefs, dbVars, handle, nReopen, aolVars>>

\* insert(doc) after the append: data.set and indexDocument.
ScInsertFinish(w) ==
  /\ Resumes(w, "insert")
  /\ data' = [data EXCEPT ![wreg[w].col][wreg[w].id] = wreg[w].new]
  /\ indexes' = IndexDocument(indexes, indexDefs, wreg[w].col, wreg[w].id, wreg[w].new)
  /\ wpc' = [wpc EXCEPT ![w] = "idle"]
  /\ wreg' = [wreg EXCEPT ![w] = NoWrite]
  /\ wres' = [wres EXCEPT ![w] = "ok"]
  /\ UNCHANGED <<txVars, stVars, opened, indexDefs, dbVars, handle, nWrites, nReopen, aolVars>>

\* insert(doc, txId) inside the body of transaction t: the operation is added
\* to the transaction, and the INSERT entry is appended with the txId at once.
ScInsertTx(w, t, c, i, v) ==
  /\ Quiet(w)
  /\ pc[t] = "body"
  /\ nWrites' = nWrites + 1
  /\ opened' = opened \cup {c}
  /\ IF HasId(c, i)
       THEN Settle(w, "DuplicateId") /\ UNCHANGED ops
       ELSE IF indexDefs[c] = "unique" /\ QueryByIndex(c, v) # {}
         THEN Settle(w, "UniqueConstraint") /\ UNCHANGED ops
         ELSE /\ ops' = [ops EXCEPT ![t] = Append(@, Operation("insert", c, i, {MkDoc(i, v)}))]
              /\ Suspend(w, Entry("INSERT", c, i, {MkDoc(i, v)}, t), "insert",
                         Absent, {MkDoc(i, v)})
  /\ UNCHANGED <<pc, active, cursor, steps, err, result, data, indexes, indexDefs,
                 dbVars, handle, nReopen, aolVars>>

\* (variant of ScAppendReject that stores the document all the same)
ScAppendRejectApplied(w) ==
  /\ wpc[w] # "idle"
  /\ Resumes(w, wpc[w])
  /\ data' = [data EXCEPT ![wreg[w].col][wreg[w].id] = wreg[w].new]
  /\ wpc' = [wpc EXCEPT ![w] = "idle"]
  /\ wreg' = [wreg EXCEPT ![w] = NoWrite]
  /\ wres' = [wres EXCEPT ![w] = "StorageError"]
  /\ UNCHANGED <<txVars, stVars, opened, indexes, indexDefs, dbVars, handle, nWrites,
                 nReopen, aolVars>>
\* The storage.append a write awaits rejects (the storage's write failed): the
\* call rejects at the await; the entry stays in the storage's list.
ScAppendReject(w) ==
  /\ wpc[w] # "idle"
  /\ Resumes(w, wpc[w])
  /\ wpc' = [wpc EXCEPT ![w] = "idle"]
  /\ wreg' = [wreg EXCEPT ![w] = NoWrite]
  /\ wres' = [wres EXCEPT ![w] = "StorageError"]
  /\ UNCHANGED <<txVars, stVars, colVars, dbVars, handle, nWrites, nReopen, aolVars>>

\* matchesFilter(doc, { _id: i })
MatchesId(doc, i) == \E d \in doc : d._id = i

\* update({ _id: i }, { f: v }): newDoc = { ...doc, ...updates, _id: id }.
ScUpdateStart(w, c, i, v) ==
  /\ Quiet(w)
  /\ nWrites' = nWrites + 1
  /\ opened' = opened \cup {c}
  /\ IF ~MatchesId(data[c][i], i)
       THEN Settle(w, "0")
       ELSE LET new == {[Merge(d, MkDoc(Undef, v)) EXCEPT !["_id"] = i] : d \in data[c][i]}
            IN Suspend(w, Entry("UPDATE", c, i, new, NoTx), "update", data[c][i], new)
  /\ UNCHANGED <<txVars, data, indexes, indexDefs, dbVars, handle, nReopen, aolVars>>

\* update after the append: removeDocument(old), data.set, indexDocument(new).
ScUpdateFinish(w) ==
  /\ Resumes(w, "update")
  /\ data' = [data EXCEPT ![wreg[w].col][wreg[w].id] = wreg[w].new]
  /\ indexes' = IndexDocument(
                  RemoveDocument(indexes, indexDefs, wreg[w].col, wreg[w].id, wreg[w].old),
                  indexDefs, wreg[w].col, wreg[w].id, wreg[w].new)
  /\ wpc' = [wpc EXCEPT ![w] = "idle"]
  /\ wreg' = [wreg EXCEPT ![w] = NoWrite]
  /\ wres' = [wres EXCEPT ![w] = "1"]
  /\ UNCHANGED <<txVars, stVars, opened, indexDefs, dbVars, handle, nWrites, nReopen, aolVars>>

\* remove({ _id: i })
ScRemoveStart(w, c, i) ==
  /\ Quiet(w)
  /\ nWrites' = nWrites + 1
  /\ opened' = opened \cup {c}
  /\ IF ~MatchesId(data[c][i], i)
       THEN Settle(w, "0")
       ELSE Suspend(w, Entry("DELETE", c, i, Absent, NoTx), "remove", data[c][i], Absent)
  /\ UNCHANGED <<txVars, data, indexes, indexDefs, dbVars, handle, nReopen, aolVars>>

\* remove after the append: removeDocument(old), data.delete.
ScRemoveFinish(w) ==
  /\ Resumes(w, "remove")
  /\ data' = [data EXCEPT ![wreg[w].col][wreg[w].id] = Absent]
  /\ indexes' = RemoveDocument(indexes, indexDefs, wreg[w].col, wreg[w].id, wreg[w].old)
  /\ wpc' = [wpc EXCEPT ![w] = "idle"]
  /\ wreg' = [wreg EXCEPT ![w] = NoWrite]
  /\ wres' = [wres EXCEPT ![w] = "1"]
  /\ UNCHANGED <<txVars, stVars, opened, indexDefs, dbVars, handle, nWrites, nReopen, aolVars>>

\* createIndex('f', { unique }): an empty index is registered; documents already
\* stored are not filed.  The call is synchronous: it runs between the calls
\* that await the storage.
ScCreateIndex(c, u) ==
  /\ handle = "open"
  /\ \A w \in Writers : wpc[w] = "idle"
  /\ indexDefs[c] = "none"
  /\ indexDefs' = [indexDefs EXCEPT ![c] = u]
  /\ opened' = opened \cup {c}
  /\ UNCHANGED <<txVars, stVars, data, indexes, dbVars, lmVars, aolVars>>

\* ------------------------------------------------------------ JSONStorage
\* Timers and file I/O complete in a later turn of the event loop than the
\* continuations of calls awaiting append().
NoneSuspended == \A w \in Writers : wpc[w] = "idle"

\* flush(): inside the file lock the whole list is written ...
JsonFlushWrite ==
  /\ handle = "open"
  /\ NoneSuspended
  /\ dirty /\ ~flushing
  /\ disk' = log
  /\ flushing' = TRUE
  /\ UNCHANGED <<txVars, log, dirty, backend, colVars, dbVars, lmVars, aolVars>>

\* ... and once writeFile has returned the list is marked clean.
JsonFlushDone ==
  /\ handle = "open"
  /\ NoneSuspended
  /\ flushing
  /\ dirty' = FALSE
  /\ flushing' = FALSE
  /\ UNCHANGED <<txVars, log, disk, backend, colVars, dbVars, lmVars, aolVars>>

\* ------------------------------------------------------------ LmcsDB
\* transaction(): txManager.begin() draws the next fresh uuid, then the body
\* runs with a context.
LmBegin(t) ==
  /\ Budget
  /\ pc[t] = "idle"
  /\ t = TxId(1 + Cardinality({t2 \in Tx : pc[t2] # "idle"}))
  /\ TmBegin(t)
  /\ pc' = [pc EXCEPT ![t] = "body"]
  /\ UNCHANGED <<cursor, steps, err, result, colVars, dbVars, lmVars, aolVars>>

\* trx.update(collection, id, data) of the three-argument context: the given
\* object is recorded as newData.
LmTrxUpdate(t, c, i, upd) ==
  /\ Budget
  /\ InBody(t)
  /\ AddOperation(t, Operation("update", c, i, {upd}))
  /\ steps' = [steps EXCEPT ![t] = @ + 1]
  /\ UNCHANGED <<pc, active, cursor, err, result, opened, indexes, indexDefs,
                 dbVars, lmVars, aolVars>>

LmTrxInsert(t, c, i, v) == Budget /\ TrxInsert(t, c, i, v)

\* trx.insert(collection, data) with data that has no _id: the operation is
\* recorded under a generated id i and newData is the object as given.
LmTrxInsertAuto(t, c, i, v) ==
  /\ Budget
  /\ InBody(t)
  /\ AddOperation(t, Operation("insert", c, i, {MkDoc(Undef, v)}))
  /\ steps' = [steps EXCEPT ![t] = @ + 1]
  /\ UNCHANGED <<pc, active, cursor, err, result, opened, indexes, indexDefs,
                 dbVars, lmVars, aolVars>>
LmTrxDelete(t, c, i) == Budget /\ TrxDelete(t, c, i)

\* commit() has returned: transaction() returns the body's result.
LmReturn(t) ==
  /\ pc[t] = "committed"
  /\ pc' = [pc EXCEPT ![t] = "resolved"]
  /\ result' = [result EXCEPT ![t] = "ok"]
  /\ UNCHANGED <<ops, active, cursor, steps, err, stVars, colVars, dbVars, lmVars, aolVars>>

\* catch: txManager.rollback(txId), rethrow.
LmRollback(t) ==
  /\ pc[t] = "rollback"
  /\ TmRollback(t)
  /\ pc' = [pc EXCEPT ![t] = "rejected"]
  /\ result' = [result EXCEPT ![t] = err[t]]
  /\ UNCHANGED <<ops, cursor, steps, err, colVars, dbVars, lmVars, aolVars>>

InFlight(t) == pc[t] \in {"body", "committing", "committed", "rollback"}

\* Everything held in memory is gone with the process; the collections of a
\* closed handle stay as they were until a new handle replaces it.
DropHandle(h) ==
  /\ handle' = h
  /\ pc' = [t \in Tx |-> IF pc[t] = "idle" THEN "idle" ELSE "dead"]
  /\ ops' = [t \in Tx |-> <<>>]
  /\ active' = {}
  /\ cursor' = [t \in Tx |-> 0]
  /\ log' = <<>>
  /\ dirty' = FALSE
  /\ flushing' = FALSE
  /\ opened' = {}
  /\ data' = IF h = "closed" THEN data ELSE EmptyData
  /\ indexes' = [c \in Cols |-> {}]
  /\ indexDefs' = [c \in Cols |-> "none"]
  /\ wpc' = [w \in Writers |-> "idle"]
  /\ wreg' = [w \in Writers |-> NoWrite]
  /\ err' = [t \in Tx |-> Undef]
  /\ result' = [t \in Tx |-> Undef]
  /\ wres' = IF h = "closed" THEN wres ELSE [w \in Writers |-> Undef]
  /\ UNCHANGED <<steps, backend, dbVars, nWrites, nReopen, aolVars>>

\* close(): storage.flush(), storage.close() (flush again, drop the list),
\* release the lock file.  Called when no call is in flight.
LmClose ==
  /\ handle = "open"
  /\ nReopen < MaxReopen
  /\ ~flushing
  /\ \A t \in Tx : ~InFlight(t)
  /\ \A w \in Writers : wpc[w] = "idle"
  /\ disk' = IF dirty THEN log ELSE disk
  /\ DropHandle("closed")

\* The process dies.
Crash ==
  /\ handle = "open"
  /\ nReopen < MaxReopen
  /\ UNCHANGED disk
  /\ DropHandle("crashed")

\* TransactionManager.recover(): transactions with a BEGIN and no COMMIT or
\* ROLLBACK, in the order of their BEGIN.
Finished(es, t) ==
  \E k \in 1..Len(es) : /\ es[k].collection = TxCollection
                        /\ es[k].op \in {"COMMIT", "ROLLBACK"}
                        /\ es[k].id = t
IsPendingBegin(es, e) ==
  e.collection = TxCollection /\ e.op = "BEGIN" /\ ~Finished(es, e.id)
PendingTxs(es) == SelectSeq(es, LAMBDA e : IsPendingBegin(es, e))

\* recover(): rollback(txId) for each of them, on the manager's own map.
RECURSIVE RecoverLog(_, _, _)
RecoverLog(es, pend, act) ==
  IF pend = <<>> THEN es
  ELSE RecoverLog(IF Head(pend).id \in act
                    THEN Append(es, Envelope("ROLLBACK", Head(pend).id)) ELSE es,
                  Tail(pend), act \ {Head(pend).id})

\* initialize(): the replay loop over storage.readStream().
RECURSIVE Replay(_, _)
Replay(d, es) ==
  IF es = <<>> THEN d
  ELSE Replay(IF Head(es).collection = TxCollection THEN d ELSE ApplyEntry(d, Head(es)),
              Tail(es))

\* new LmcsDB(config) and initialize(): load the file, recover, replay.
LmReopen ==
  /\ handle \in {"closed", "crashed"}
  /\ handle' = "open"
  /\ nReopen' = nReopen + 1
  /\ log' = RecoverLog(disk, PendingTxs(disk), active)
  /\ dirty' = (log' # disk)
  /\ data' = Replay(EmptyData, log')
  /\ opened' = {e.collection : e \in {log'[k] : k \in 1..Len(log')}} \ {TxCollection}
  /\ UNCHANGED <<txVars, flushing, disk, backend, indexes, indexDefs, dbVars,
                 wpc, wreg, wres, nWrites, aolVars>>

InitLmcs ==
  /\ InitTx /\ InitLock /\ InitHandle /\ InitIndexes /\ InitAol /\ InitExt
  /\ log = <<>> /\ dirty = FALSE /\ flushing = FALSE /\ disk = <<>>
  /\ backend = "json"
  /\ opened = {}
  /\ data = EmptyData

NextLmcs ==
  \/ \E t \in Tx : LmBegin(t)
  \/ \E t \in Tx, c \in Cols, i \in Ids, v \in 1..MaxVal : LmTrxInsert(t, c, i, v)
  \/ \E t \in Tx, c \in Cols, i \in Ids, v \in 1..MaxVal : LmTrxInsertAuto(t, c, i, v)
  \/ \E t \in Tx, c \in Cols, i \in Ids, v \in 1..MaxVal : LmTrxUpdate(t, c, i, MkDoc(Undef, v))
  \/ \E t \in Tx, c \in Cols, i \in Ids : LmTrxDelete(t, c, i)
  \/ \E t \in Tx : BodyThrow(t)
  \/ \E t \in Tx : BodyReturn(t)
  \/ \E t \in Tx : CommitAppend(t)
  \/ \E t \in Tx : CommitEnvelope(t)
  \/ \E t \in Tx : LmReturn(t)
  \/ \E t \in Tx : LmRollback(t)
  \/ \E w \in Writers, c \in Cols, i \in Ids, v \in 0..MaxVal : ScInsertStart(w, c, i, v)
  \/ \E w \in Writers, t \in Tx, c \in Cols, i \in Ids, v \in 0..MaxVal :
       ScInsertTx(w, t, c, i, v)
  \/ \E w \in Writers : ScAppendReject(w)
  \/ \E w \in Writers : ScInsertFinish(w)
  \/ \E w \in Writers, c \in Cols, i \in Ids, v \in 0..MaxVal : ScUpdateStart(w, c, i, v)
  \/ \E w \in Writers : ScUpdateFinish(w)
  \/ \E w \in Writers, c \in Cols, i \in Ids : ScRemoveStart(w, c, i)
  \/ \E w \in Writers : ScRemoveFinish(w)
  \/ \E c \in Cols, u \in {"plain", "unique"} : ScCreateIndex(c, u)
  \/ JsonFlushWrite
  \/ JsonFlushDone
  \/ LmClose
  \/ Crash
  \/ LmReopen

SpecLmcs == InitLmcs /\ [][NextLmcs]_vars

\* ------------------------------------------------------------ AOLStorage
\* The n-th entry handed to append(): n stands for its timestamp.
Stamped(e, n) == [op |-> e.op, collection |-> e.collection, id |-> e.id,
                  data |-> e.data, txId |-> e.txId, timestamp |-> n]

\* What the n-th append() call is given: the entries of the compaction test
\* (insert 1, update 1, delete 1, insert 2) and one alternative at each place.
Workload(n) ==
  CASE n = 1 -> {Entry("INSERT", "accounts", "a", {MkDoc("a", 0)}, NoTx)}
    [] n = 2 -> {Entry("UPDATE", "accounts", "a", {MkDoc("a", MaxVal)}, NoTx),
                 Envelope("COMMIT", TxId(1))}
    [] n = 3 -> {Entry("DELETE", "accounts", "a", Absent, NoTx),
                 Entry("INSERT", "accounts", "b", {MkDoc("b", 0)}, NoTx)}
    [] OTHER -> {Entry("INSERT", "accounts", "b", {MkDoc("b", 0)}, NoTx),
                 Entry("INSERT", "accounts", "a", {MkDoc("a", 0)}, NoTx)}

aolFrame == <<txVars, stVars, colVars, dbVars, wpc, wreg, wres, nWrites, extVars>>

\* The call is served by the first idle task of an initialized storage.
Ready(k) ==
  /\ handle = "open"
  /\ apc[k] = "idle"
  /\ \A j \in Tasks : j < k => apc[j] # "idle"

\* The file lock of withLock is held from the write to the end of the callback.
LockIsFree == \A k \in Tasks : apc[k] # "flushReset"

\* content.split("\n").filter(l => l.trim()), then JSON.parse of each line: a
\* line parses when it holds exactly one entry.
ReadLines(f) ==
  LET valid == SelectSeq(f, LAMBDA l : Len(l) = 1)
  IN [k \in 1..Len(valid) |-> valid[k][1]]

\* appendFile(filePath, lines.join("\n") + "\n"): the text continues the last
\* line of a file that does not end with a newline.
AppendText(f, nl, lines) ==
  IF lines = <<>> THEN f
  ELSE IF nl \/ f = <<>> THEN f \o [k \in 1..Len(lines) |-> <<lines[k]>>]
  ELSE [f EXCEPT ![Len(f)] = @ \o <<lines[1]>>]
         \o [k \in 1..(Len(lines) - 1) |-> <<lines[k + 1]>>]

\* flush() as called by task k: return at once on an empty buffer, otherwise
\* queue for the lock; phase next follows the flush.
StartFlush(k, kind, n, next) ==
  IF buffer' = <<>>
    THEN /\ apc' = [apc EXCEPT ![k] = next]
         /\ areg' = [areg EXCEPT ![k] = [NoCall EXCEPT !.kind = kind, !.n = n]]
         /\ returned' = IF kind = "append" THEN returned \cup {n} ELSE returned
         /\ durable' = IF kind = "flush" THEN durable \cup returned ELSE durable
    ELSE /\ apc' = [apc EXCEPT ![k] = "flushWait"]
         /\ areg' = [areg EXCEPT ![k] = [NoCall EXCEPT !.kind = kind, !.n = n,
                                                       !.covers = returned]]
         /\ UNCHANGED <<returned, durable>>

\* append(entry) as run by task k: push; at bufferSize entries the call awaits
\* flush().
AolPush(k, e) ==
  LET n == Len(appended) + 1
  IN /\ buffer' = Append(buffer, Stamped(e, n))
     /\ appended' = Append(appended, Stamped(e, n))
     /\ IF Len(buffer') >= BufferSize
          THEN StartFlush(k, "append", n, "idle")
          ELSE /\ returned' = returned \cup {n}
               /\ UNCHANGED <<apc, areg, durable>>

\* append(entry) called by a client.
AolAppend(k) ==
  /\ Ready(k)
  /\ Len(appended) < MaxAppends
  /\ \E e \in Workload(Len(appended) + 1) : AolPush(k, e)
  /\ UNCHANGED <<aolFrame, handle, nReopen, file, eol, recovered, nFlushes, nCompact>>

\* flush() called by a client.
AolFlush(k) ==
  /\ Ready(k)
  /\ nFlushes < MaxFlushes
  /\ nFlushes' = nFlushes + 1
  /\ UNCHANGED buffer
  /\ StartFlush(k, "flush", 0, "idle")
  /\ UNCHANGED <<aolFrame, handle, nReopen, file, eol, appended, recovered, nCompact>>

\* Inside the lock: the buffer is stringified and appended to the file.
FlushWrite(k) ==
  /\ apc[k] = "flushWait"
  /\ LockIsFree
  /\ file' = AppendText(file, eol, buffer)
  /\ eol' = TRUE
  /\ apc' = [apc EXCEPT ![k] = "flushReset"]
  /\ UNCHANGED <<aolFrame, handle, nReopen, buffer, appended, areg, returned,
                 durable, recovered, nFlushes, nCompact>>

\* Phase that follows a flush of the given kind.
AfterFlush(kind) ==
  CASE kind = "compact" -> "readFlush"
    [] kind = "read" -> "read"
    [] kind = "stream" -> "stream"
    [] OTHER -> "idle"

\* After the lock: this.buffer = [], and flush() returns to its caller.
FlushReset(k) ==
  /\ apc[k] = "flushReset"
  /\ buffer' = <<>>
  /\ apc' = [apc EXCEPT ![k] = AfterFlush(areg[k].kind)]
  /\ returned' = IF areg[k].kind = "append" THEN returned \cup {areg[k].n} ELSE returned
  /\ durable' = IF areg[k].kind = "flush" THEN durable \cup areg[k].covers ELSE durable
  /\ UNCHANGED <<aolFrame, handle, nReopen, file, eol, appended, areg, recovered,
                 nFlushes, nCompact>>

\* compact(): await this.flush()
AolCompact(k) ==
  /\ Ready(k)
  /\ nCompact < MaxCompact
  /\ nCompact' = nCompact + 1
  /\ UNCHANGED buffer
  /\ StartFlush(k, "compact", 0, "readFlush")
  /\ UNCHANGED <<aolFrame, handle, nReopen, file, eol, appended, recovered, nFlushes>>

\* readStream(): await this.flush()
ReadFlush(k) ==
  /\ apc[k] = "readFlush"
  /\ UNCHANGED buffer
  /\ StartFlush(k, "read", 0, "read")
  /\ UNCHANGED <<aolFrame, handle, nReopen, file, eol, appended, recovered,
                 nFlushes, nCompact>>

\* (variant of CompactStep that passes over DELETE entries)
CompactStepNoDelete(state, e) ==
  IF e.op \in {"DELETE", "BEGIN", "COMMIT", "ROLLBACK"} THEN state
  ELSE IF \E j \in 1..Len(state) : state[j].collection = e.collection /\ state[j].id = e.id
    THEN [j \in 1..Len(state) |->
            IF state[j].collection = e.collection /\ state[j].id = e.id THEN e ELSE state[j]]
    ELSE Append(state, e)
\* One iteration of compact()'s loop over a Map kept in insertion order.
CompactStep(state, e) ==
  IF e.op = "DELETE"
    THEN SelectSeq(state, LAMBDA x : ~(x.collection = e.collection /\ x.id = e.id))
  ELSE IF e.op \in {"BEGIN", "COMMIT", "ROLLBACK"} THEN state
  ELSE IF \E j \in 1..Len(state) : state[j].collection = e.collection /\ state[j].id = e.id
    THEN [j \in 1..Len(state) |->
            IF state[j].collection = e.collection /\ state[j].id = e.id THEN e ELSE state[j]]
    ELSE Append(state, e)

RECURSIVE CompactFold(_, _)
CompactFold(state, es) ==
  IF es = <<>> THEN state ELSE CompactFold(CompactStep(state, Head(es)), Tail(es))

\* compact(): the file is read.
CompactRead(k) ==
  /\ apc[k] = "read"
  /\ areg' = [areg EXCEPT ![k] = [NoCall EXCEPT !.kind = "compact", !.read = ReadLines(file)]]
  /\ apc' = [apc EXCEPT ![k] = "write"]
  /\ UNCHANGED <<aolFrame, handle, nReopen, buffer, file, eol, appended, returned,
                 durable, recovered, nFlushes, nCompact>>

\* compact(): an empty state truncates the file; otherwise the joined lines
\* (no final newline) go to the temporary file, renamed under the lock.
CompactWrite(k) ==
  /\ apc[k] = "write"
  /\ LET state == CompactFold(<<>>, areg[k].read)
     IN IF state = <<>>
          THEN file' = <<>> /\ eol' = TRUE
          ELSE /\ LockIsFree
               /\ file' = [j \in 1..Len(state) |-> <<state[j]>>]
               /\ eol' = FALSE
  /\ apc' = [apc EXCEPT ![k] = "idle"]
  /\ areg' = [areg EXCEPT ![k].kind = "compacted"]
  /\ UNCHANGED <<aolFrame, handle, nReopen, buffer, appended, returned, durable,
                 recovered, nFlushes, nCompact>>

\* The process dies: the buffer and every pending call are gone.
AolCrash ==
  /\ handle = "open"
  /\ nReopen < MaxReopen
  /\ handle' = "crashed"
  /\ buffer' = <<>>
  /\ apc' = [k \in Tasks |-> "idle"]
  /\ areg' = [k \in Tasks |-> NoCall]
  /\ returned' = {}
  /\ UNCHANGED <<aolFrame, nReopen, file, eol, appended, durable,
                 recovered, nFlushes, nCompact>>

\* A new storage on the same file: initialize() and a full readStream().
AolReopen ==
  /\ handle = "crashed"
  /\ handle' = "open"
  /\ nReopen' = nReopen + 1
  /\ recovered' = ReadLines(file)
  /\ UNCHANGED <<aolFrame, buffer, file, eol, appended, apc, areg, returned,
                 durable, nFlushes, nCompact>>

InitAolDb ==
  /\ InitTx /\ InitLock /\ InitHandle /\ InitIndexes /\ InitAol /\ InitExt
  /\ log = <<>> /\ dirty = FALSE /\ flushing = FALSE /\ disk = <<>>
  /\ backend = "aol"
  /\ opened = {}
  /\ data = EmptyData

NextAol ==
  \/ \E k \in Tasks : AolAppend(k)
  \/ \E k \in Tasks : AolFlush(k)
  \/ \E k \in Tasks : FlushWrite(k)
  \/ \E k \in Tasks : FlushReset(k)
  \/ \E k \in Tasks : AolCompact(k)
  \/ \E k \in Tasks : ReadFlush(k)
  \/ \E k \in Tasks : CompactRead(k)
  \/ \E k \in Tasks : CompactWrite(k)
  \/ AolCrash
  \/ AolReopen

SpecAol == InitAolDb /\ [][NextAol]_vars

\* ------------------------------------------------------------ readStream on the AOL
\* readStream() called by a client: await this.flush(); n keeps how many
\* entries had been appended when the call was made.
AolReadStream(k) ==
  /\ Ready(k)
  /\ UNCHANGED buffer
  /\ StartFlush(k, "stream", Len(appended), "stream")
  /\ UNCHANGED <<aolFrame, handle, nReopen, file, eol, appended, recovered,
                 nFlushes, nCompact>>

\* readStream(): the file is read and every line that parses is yielded.
StreamRead(k) ==
  /\ apc[k] = "stream"
  /\ areg' = [areg EXCEPT ![k] = [@ EXCEPT !.kind = "streamed", !.read = ReadLines(file)]]
  /\ apc' = [apc EXCEPT ![k] = "idle"]
  /\ UNCHANGED <<aolFrame, handle, nReopen, buffer, file, eol, appended, returned,
                 durable, recovered, nFlushes, nCompact>>

NextStream ==
  \/ \E k \in Tasks : AolAppend(k)
  \/ \E k \in Tasks : AolReadStream(k)
  \/ \E k \in Tasks : FlushWrite(k)
  \/ \E k \in Tasks : FlushReset(k)
  \/ \E k \in Tasks : StreamRead(k)

SpecStream == InitAolDb /\ [][NextStream]_vars

\* ------------------------------------------------------------ transactions on the AOL
\* LmcsDB.transaction with storageType 'aol': the TransactionManager appends to
\* the AOLStorage; transaction n runs as task n.
TaskOf(t) == CHOOSE k \in Tasks : t = TxId(k)

\* The storage call the transaction awaited has returned.
Awake(t) == handle = "open" /\ apc[TaskOf(t)] = "idle"

atFrame == <<stVars, colVars, dbVars, lmVars, file, eol, recovered, nFlushes, nCompact,
            extVars>>

\* transaction(): txManager.begin() registers the transaction and appends BEGIN.
AtBegin(t) ==
  /\ pc[t] = "idle"
  /\ t = TxId(1 + Cardinality({t2 \in Tx : pc[t2] # "idle"}))
  /\ Awake(t)
  /\ active' = active \cup {t}
  /\ ops' = [ops EXCEPT ![t] = <<>>]
  /\ AolPush(TaskOf(t), Envelope("BEGIN", t))
  /\ pc' = [pc EXCEPT ![t] = "body"]
  /\ UNCHANGED <<cursor, steps, err, result, atFrame>>

\* The bodies execute MaxCalls statements between them.
AtBudget(t) == Awake(t) /\ SumSteps(Tx) < MaxCalls

AtTrxInsert(t, c, i, v) == AtBudget(t) /\ TrxInsert(t, c, i, v)
AtTrxDelete(t, c, i) == AtBudget(t) /\ TrxDelete(t, c, i)
AtBodyReturn(t) == Awake(t) /\ BodyReturn(t)
AtBodyThrow(t) == Awake(t) /\ BodyThrow(t)

\* commit(): append the next operation.
AtCommitAppend(t) ==
  /\ pc[t] = "committing"
  /\ cursor[t] <= Len(ops[t])
  /\ Awake(t)
  /\ AolPush(TaskOf(t), CommitEntry(t, ops[t][cursor[t]]))
  /\ cursor' = [cursor EXCEPT ![t] = @ + 1]
  /\ UNCHANGED <<pc, ops, active, steps, err, result, atFrame>>

\* commit(): append the COMMIT envelope.
AtCommitEnvelope(t) ==
  /\ pc[t] = "committing"
  /\ cursor[t] > Len(ops[t])
  /\ Awake(t)
  /\ AolPush(TaskOf(t), Envelope("COMMIT", t))
  /\ pc' = [pc EXCEPT ![t] = "committed"]
  /\ UNCHANGED <<ops, active, cursor, steps, err, result, atFrame>>

\* commit() returns once that append has returned; transaction() resolves.
AtCommitReturn(t) ==
  /\ pc[t] = "committed"
  /\ Awake(t)
  /\ active' = active \ {t}
  /\ pc' = [pc EXCEPT ![t] = "resolved"]
  /\ result' = [result EXCEPT ![t] = "ok"]
  /\ UNCHANGED <<ops, cursor, steps, err, atFrame, buffer, appended, apc, areg,
                 returned, durable>>

\* catch: rollback() appends the ROLLBACK envelope ...
AtRollback(t) ==
  /\ pc[t] = "rollback"
  /\ Awake(t)
  /\ AolPush(TaskOf(t), Envelope("ROLLBACK", t))
  /\ active' = active \ {t}
  /\ pc' = [pc EXCEPT ![t] = "rolledback"]
  /\ UNCHANGED <<ops, cursor, steps, err, result, atFrame>>

\* ... and the error is rethrown.
AtReject(t) ==
  /\ pc[t] = "rolledback"
  /\ Awake(t)
  /\ pc' = [pc EXCEPT ![t] = "rejected"]
  /\ result' = [result EXCEPT ![t] = err[t]]
  /\ UNCHANGED <<ops, active, cursor, steps, err, atFrame, buffer, appended, apc, areg,
                 returned, durable>>

NextTxAol ==
  \/ \E t \in Tx : AtBegin(t)
  \/ \E t \in Tx, c \in Cols, i \in Ids : AtTrxInsert(t, c, i, MaxVal)
  \/ \E t \in Tx, c \in Cols, i \in Ids : AtTrxDelete(t, c, i)
  \/ \E t \in Tx : AtBodyReturn(t)
  \/ \E t \in Tx : AtBodyThrow(t)
  \/ \E t \in Tx : AtCommitAppend(t)
  \/ \E t \in Tx : AtCommitEnvelope(t)
  \/ \E t \in Tx : AtCommitReturn(t)
  \/ \E t \in Tx : AtRollback(t)
  \/ \E t \in Tx : AtReject(t)
  \/ \E k \in Tasks : FlushWrite(k)
  \/ \E k \in Tasks : FlushReset(k)

SpecTxAol == InitAolDb /\ [][NextTxAol]_vars

\* ------------------------------------------------------------ AOL checksums
MaxLines == 3     \* entries appended in a checksum run or a lifecycle run

\* A LogEntry as the JavaScript object it is: its keys in insertion order
\* (collection.ts passes checksum: '', other callers leave the key out).
\* The empty string is the empty sequence.
LogEntry(o, i, v, cs) ==
  <<<<"op", o>>, <<"id", i>>, <<"data", v>>>> \o
  (IF cs THEN <<<<"checksum", <<>>>>>> ELSE <<>>)

\* obj[k], absent when the key is not there.
Get(obj, k) == {obj[n][2] : n \in {m \in DOMAIN obj : obj[m][1] = k}}

\* delete obj[k]
Delete(obj, k) == SelectSeq(obj, LAMBDA p : p[1] # k)

\* obj[k] = v, and { ...obj, k: v }: an existing key keeps its place.
Assign(obj, k, v) ==
  IF Get(obj, k) # {}
    THEN [n \in DOMAIN obj |-> IF obj[n][1] = k THEN <<k, v>> ELSE obj[n]]
    ELSE Append(obj, <<k, v>>)

\* JSON.stringify and JSON.parse: the text is the keys and values in order.
Stringify(obj) == [n \in 1..(2 * Len(obj)) |-> obj[(n + 1) \div 2][2 - (n % 2)]]
Parse(s) == [n \in 1..(Len(s) \div 2) |-> <<s[2 * n - 1], s[2 * n]>>]

\* createHash('sha256').update(text).digest('hex'): one digest per text.
Sha256(text) == <<"sha256", text>>

\* The digest append() stores in entry.checksum.
WriteDigest(entry) ==
  IF impl = "aol.ts"
    THEN Sha256(Stringify(Delete(entry, "checksum")))
    ELSE Sha256(Stringify(Assign(entry, "checksum", <<>>)))

\* The digest readStream() compares with entry.checksum.
ReadDigest(entry) == Sha256(Stringify(Delete(entry, "checksum")))

\* What readStream() does with one parsed line: "yield", "skip" or "throw".
ReadEntry(entry) ==
  LET expected == Get(entry, "checksum") IN
  IF impl = "aol.ts"
    THEN IF expected \notin {{}, {<<>>}} /\ {ReadDigest(entry)} # expected
           THEN "skip" ELSE "yield"
    ELSE IF Get(entry, "op") \cap {"BEGIN", "COMMIT", "ROLLBACK"} = {}
            /\ {ReadDigest(entry)} # expected
           THEN "throw" ELSE "yield"

\* readStream() over the lines from line n on; a throw ends the generator.
RECURSIVE ReadFrom(_, _, _)
ReadFrom(lines, n, acc) ==
  IF n > Len(lines) THEN [acc EXCEPT !.done = TRUE]
  ELSE LET outcome == ReadEntry(Parse(lines[n])) IN
       CASE outcome = "yield" ->
              ReadFrom(lines, n + 1, [acc EXCEPT !.yielded = Append(@, n)])
         [] outcome = "skip" ->
              ReadFrom(lines, n + 1, [acc EXCEPT !.skipped = @ \cup {n}])
         [] OTHER -> [acc EXCEPT !.done = TRUE, !.error = {"CorruptionError"}]

sumFrame == <<txVars, stVars, colVars, dbVars, lmVars, eol, appended, apc, areg,
              returned, durable, recovered, nFlushes, nCompact, impl, qryVars, lifeVars, wwVars>>

\* append(entry) with checksums enabled; a full buffer is flushed to the file.
SumAppend(o, i, v, cs) ==
  LET entry == LogEntry(o, i, v, cs)
      full == Append(buffer, Stringify(Assign(entry, "checksum", WriteDigest(entry))))
  IN /\ Len(file) + Len(buffer) < MaxLines
     /\ IF Len(full) >= BufferSize
          THEN file' = file \o full /\ buffer' = <<>>
          ELSE buffer' = full /\ file' = file
     /\ UNCHANGED <<sumFrame, tampered, stream>>

\* The file is damaged on disk: the data of line n changes, or its checksum
\* is blanked.
SumTamper(n, k) ==
  LET entry == Parse(file[n])
      v == IF k = "data" THEN 1 - (CHOOSE x \in Get(entry, "data") : TRUE) ELSE <<>>
  IN /\ n \in DOMAIN file
     /\ n \notin tampered
     /\ file' = [file EXCEPT ![n] = Stringify(Assign(entry, k, v))]
     /\ tampered' = tampered \cup {n}
     /\ UNCHANGED <<sumFrame, buffer, stream>>

\* readStream() read to its end: flush, read the file, check every line.
SumRead ==
  /\ file' = file \o buffer
  /\ buffer' = <<>>
  /\ stream' = ReadFrom(file', 1, NoStream)
  /\ UNCHANGED <<sumFrame, tampered>>

InitSum ==
  /\ InitTx /\ InitLock /\ InitHandle /\ InitIndexes /\ InitAol
  /\ log = <<>> /\ dirty = FALSE /\ flushing = FALSE /\ disk = <<>>
  /\ backend = "aol"
  /\ opened = {}
  /\ data = EmptyData
  /\ impl \in {"aol.ts", "part_013"}
  /\ tampered = {} /\ IdleWorker
  /\ stream = NoStream
  /\ query = NoQuery /\ found = {} /\ streamed = {}
  /\ InitOpen

NextSum ==
  \/ \E o \in {"INSERT", "DELETE", "COMMIT"}, i \in {"a"}, v \in 0..MaxVal, cs \in BOOLEAN :
       SumAppend(o, i, v, cs)
  \/ \E n \in 1..MaxLines, k \in {"data", "checksum"} : SumTamper(n, k)
  \/ SumRead

SpecSum == InitSum /\ [][NextSum]_vars

\* ------------------------------------------------------------ queries
MaxSkip == 2      \* largest options.skip
MaxLimit == 2     \* largest options.limit

\* JavaScript values: numbers, strings, objects (entries in key order), arrays.
Num(n) == [t |-> "num", v |-> n]
Str(x) == [t |-> "str", v |-> x]
Obj(entries) == [t |-> "obj", v |-> entries]
Arr(items) == [t |-> "arr", v |-> items]

\* The products test/query.test.ts seeds, in insertion order (the order of
\* data.values()).
Products ==
  << [name |-> "iPhone", price |-> 999, category |-> "tech"],
     [name |-> "MacBook", price |-> 1999, category |-> "tech"],
     [name |-> "Banana", price |-> 1, category |-> "food"],
     [name |-> "Orange", price |-> 2, category |-> "food"],
     [name |-> "Car", price |-> 20000, category |-> "vehicle"] >>

\* getNestedValue(doc, path): undefined is the empty set.
GetNestedValue(doc, path) ==
  CASE path = "price" -> {Num(doc.price)}
    [] path = "category" -> {Str(doc.category)}
    [] path = "name" -> {Str(doc.name)}
    [] OTHER -> {}

\* docValue === value: objects and arrays are never identical to a literal.
StrictEquals(docValue, value) ==
  \E d \in docValue : d.t = value.t /\ d.t \in {"num", "str"} /\ d.v = value.v

\* The strings of the run in code-unit order, which is how < compares strings.
StringOrder == <<"Banana", "Car", "MacBook", "Orange", "food", "iPhone", "tech", "vehicle">>
Rank(x) == IF x.t = "num" THEN x.v ELSE CHOOSE k \in DOMAIN StringOrder : StringOrder[k] = x.v

\* docVal > val, >=, <, <= on two numbers or two strings; undefined compares
\* false.
Compare(op, docVal, val) ==
  \E d \in docVal :
    /\ d.t = val.t /\ d.t \in {"num", "str"}
    /\ CASE op = "$gt" -> Rank(d) > Rank(val)
         [] op = "$gte" -> Rank(d) >= Rank(val)
         [] op = "$lt" -> Rank(d) < Rank(val)
         [] op = "$lte" -> Rank(d) <= Rank(val)
         [] OTHER -> FALSE

\* matchesFilter(doc, filter): the loop over Object.entries(filter). A key
\* that starts with '$' returns at once; the operator keys read their operand
\* as { field: value }.
RECURSIVE MatchesFilter(_, _)
MatchesFilter(doc, filter) ==
  IF Len(filter) = 0 THEN TRUE
  ELSE LET key == filter[1][1]
           value == filter[1][2]
       IN CASE key = "$or" ->
                 value.t = "arr" /\ \E k \in DOMAIN value.v : MatchesFilter(doc, value.v[k])
            [] key = "$and" ->
                 value.t = "arr" /\ \A k \in DOMAIN value.v : MatchesFilter(doc, value.v[k])
            [] key \in {"$gt", "$gte", "$lt", "$lte"} ->
                 Compare(key, GetNestedValue(doc, value.v[1][1]), value.v[1][2])
            [] key = "$ne" ->
                 ~StrictEquals(GetNestedValue(doc, value.v[1][1]), value.v[1][2])
            [] key = "$in" ->
                 /\ value.v[1][2].t = "arr"
                 /\ \E k \in DOMAIN value.v[1][2].v :
                      StrictEquals(GetNestedValue(doc, value.v[1][1]), value.v[1][2].v[k])
            [] key = "$exists" ->  \* any other key that starts with '$': continue
                 MatchesFilter(doc, Tail(filter))
            [] OTHER ->
                 /\ StrictEquals(GetNestedValue(doc, key), value)
                 /\ MatchesFilter(doc, Tail(filter))

\* The comparator of results.sort: negative, zero or positive.
RECURSIVE SortCompare(_, _, _)
SortCompare(a, b, sort) ==
  IF Len(sort) = 0 THEN 0
  ELSE LET aVal == GetNestedValue(a, sort[1][1])
           bVal == GetNestedValue(b, sort[1][1])
           order == sort[1][2]
       IN IF Compare("$lt", aVal, (CHOOSE x \in bVal : TRUE)) THEN (IF order = 1 THEN 0 - 1 ELSE 1)
          ELSE IF Compare("$gt", aVal, (CHOOSE x \in bVal : TRUE)) THEN (IF order = 1 THEN 1 ELSE 0 - 1)
          ELSE SortCompare(a, b, Tail(sort))

\* Array.prototype.sort with that comparator: a stable sort.
RECURSIVE SortResults(_, _)
SortResults(results, sort) ==
  IF Len(results) = 0 THEN <<>>
  ELSE LET n == Len(results)
           front == SortResults(SubSeq(results, 1, n - 1), sort)
           last == results[n]
           keep == {k \in 0..Len(front) :
                      \A j \in (k + 1)..Len(front) : SortCompare(front[j], last, sort) > 0}
           at == CHOOSE k \in keep : \A j \in keep : k <= j
       IN SubSeq(front, 1, at) \o <<last>> \o SubSeq(front, at + 1, Len(front))

\* results.slice(from) and results.slice(0, to)
Slice(results, from, to) ==
  SubSeq(results, from + 1, IF to < Len(results) THEN to ELSE Len(results))

\* findAll(options): filter, sort, skip, limit.
FindAll(options) ==
  LET all == Products
      filtered == IF options.filter # {}
                    THEN SelectSeq(all, LAMBDA doc :
                           MatchesFilter(doc, CHOOSE f \in options.filter : TRUE))
                    ELSE all
      sorted == IF Len(options.sort) # 0 THEN SortResults(filtered, options.sort)
                ELSE filtered
      skipped == IF options.skip # 0 THEN Slice(sorted, options.skip, Len(sorted))
                 ELSE sorted
  IN IF options.limit # 0 THEN Slice(skipped, 0, options.limit) ELSE skipped

\* findStream(options) without a sort: the loop over data.values() from
\* document n on, with its two counters.
RECURSIVE StreamFrom(_, _, _, _)
StreamFrom(options, n, count, skipped) ==
  IF n > Len(Products) THEN <<>>
  ELSE LET doc == Products[n] IN
       IF options.filter # {} /\ ~MatchesFilter(doc, CHOOSE f \in options.filter : TRUE)
         THEN StreamFrom(options, n + 1, count, skipped)
       ELSE IF options.skip # 0 /\ skipped < options.skip
         THEN StreamFrom(options, n + 1, count, skipped + 1)
       ELSE IF options.limit # 0 /\ count >= options.limit
         THEN <<>>
       ELSE <<doc>> \o StreamFrom(options, n + 1, count + 1, skipped)

\* findStream(options) that never skips.
FindStreamNoSkip(options) ==
  IF Len(options.sort) # 0 THEN FindAll(options)
  ELSE StreamFrom([options EXCEPT !.skip = 0], 1, 0, 0)

\* findStream(options), read to its end.
FindStream(options) ==
  IF Len(options.sort) # 0 THEN FindAll(options)
  ELSE StreamFrom(options, 1, 0, 0)

\* The filters of test/query.test.ts and their neighbours.
PriceGt(n) == <<<<"price", Obj(<<<<"$gt", Num(n)>>>>)>>>>
Category(c) == <<<<"category", Str(c)>>>>
Filters ==
  { PriceGt(1000),
    Category("food"),
    <<<<"$or", Arr(<<Category("food"), PriceGt(1500)>>)>>>>,
    <<<<"$or", Arr(<<Category("food"), Category("vehicle")>>)>>, <<"category", Str("tech")>>>>,
    <<<<"$gt", Obj(<<<<"price", Num(1000)>>>>)>>>>,
    <<<<"$and", Arr(<<Category("tech"), <<<<"$lt", Obj(<<<<"price", Num(1000)>>>>)>>>>>>)>>>>,
    <<<<"$ne", Obj(<<<<"category", Str("food")>>>>)>>>>,
    <<<<"$exists", Obj(<<<<"price", Num(1)>>>>)>>, <<"$in", Obj(<<<<"price", Arr(<<Num(1), Num(2)>>)>>>>)>>>> }

qryFrame == <<txVars, stVars, colVars, dbVars, lmVars, buffer, file, eol, appended, apc,
              areg, returned, durable, recovered, nFlushes, nCompact, impl, sumVars,
              lifeVars, wwVars>>

QFindAll ==
  /\ found = {}
  /\ found' = {FindAll(query)}
  /\ UNCHANGED <<qryFrame, query, streamed>>

QFindStream ==
  /\ streamed = {}
  /\ streamed' = {FindStream(query)}
  /\ UNCHANGED <<qryFrame, query, found>>

InitQuery ==
  /\ InitTx /\ InitLock /\ InitHandle /\ InitIndexes /\ InitAol
  /\ log = <<>> /\ dirty = FALSE /\ flushing = FALSE /\ disk = <<>>
  /\ backend = "memory"
  /\ opened = {}
  /\ data = EmptyData
  /\ impl = "aol.ts" /\ tampered = {} /\ IdleWorker /\ stream = NoStream
  /\ query \in [filter : {{}} \cup {{f} : f \in Filters},
                sort : {<<>>, <<<<"price", 1>>>>, <<<<"price", 0 - 1>>>>,
                        <<<<"category", 1>>, <<"price", 0 - 1>>>>},
                skip : 0..MaxSkip,
                limit : 0..MaxLimit]
  /\ found = {}
  /\ streamed = {}
  /\ InitOpen

NextQuery == QFindAll \/ QFindStream

SpecQuery == InitQuery /\ [][NextQuery]_vars

\* ------------------------------------------------------------ handle and timers
IsJson == impl \in {"json.ts", "part_006"}

\* The one entry the lifecycle runs append.
LifeEntry == Entry("INSERT", "accounts", "a", {MkDoc("a", 0)}, NoTx)

\* flush() would write: JSONStorage is dirty, the AOL buffer is not empty.
Pending == IF IsJson THEN dirty ELSE Len(buffer) > 0

\* A flush() that succeeds: JSONStorage rewrites the file from its list with
\* its own key, AOLStorage appends its buffer.
Flushed ==
  /\ disk' = IF IsJson /\ dirty THEN log ELSE disk
  /\ foreign' = IF IsJson /\ dirty THEN FALSE ELSE foreign
  /\ dirty' = IF IsJson THEN FALSE ELSE dirty
  /\ file' = IF IsJson THEN file ELSE file \o buffer
  /\ buffer' = IF IsJson THEN buffer ELSE <<>>

\* storage.initialize(): whether it resolves, the entry list and the timer it
\* leaves. decrypt throws on a file of another key; json.ts rethrows every
\* error but ENOENT and arms its timer whatever autosaveMs is; part_006 starts
\* fresh and arms the timer for a positive interval; the AOL timer is armed by
\* the constructor.
StorageInitialize ==
  CASE impl = "json.ts" ->
         IF foreign THEN [ok |-> FALSE, data |-> log, timer |-> timer]
         ELSE [ok |-> TRUE, data |-> disk, timer |-> TRUE]
    [] impl = "part_006" ->
         [ok |-> TRUE, data |-> IF foreign THEN <<>> ELSE disk, timer |-> interval > 0]
    [] OTHER -> [ok |-> TRUE, data |-> log, timer |-> timer]

lifeFrame == <<txVars, flushing, backend, colVars, dbVars, wpc, wreg, wres, nWrites,
               nReopen, eol, appended, apc, areg, returned, durable, recovered,
               impl, sumVars, qryVars, klass, interval, wwVars>>

\* initialize(): acquire the lock (it throws when another process, or this
\* handle, holds it), then storage.initialize(). Database has no catch;
\* LmcsDB releases the lock when the storage throws.
LifeInitialize(busy) ==
  /\ handle \in {"new", "failed"}
  /\ IF busy \/ locked
       THEN /\ handle' = "failed"
            /\ UNCHANGED <<locked, initialized, timer, log>>
       ELSE LET st == StorageInitialize IN
            /\ handle' = IF st.ok THEN "open" ELSE "failed"
            /\ locked' = (st.ok \/ klass = "Database")
            /\ initialized' = st.ok
            /\ timer' = st.timer
            /\ log' = st.data
  /\ UNCHANGED <<lifeFrame, dirty, disk, foreign, buffer, file, nFlushes, nCompact>>

\* storage.append(entry) through an open handle. json.ts flushes when no timer
\* handle is set, part_006 never, the AOL when its buffer is full.
LifeAppend ==
  /\ handle = "open"
  /\ Len(log) + Len(buffer) + Len(file) < MaxLines
  /\ IF IsJson
       THEN /\ log' = Append(log, LifeEntry)
            /\ IF impl = "json.ts" /\ ~timer
                 THEN disk' = log' /\ dirty' = FALSE /\ foreign' = FALSE
                 ELSE dirty' = TRUE /\ UNCHANGED <<disk, foreign>>
            /\ UNCHANGED <<buffer, file>>
       ELSE /\ IF Len(buffer) + 1 >= BufferSize
                 THEN file' = file \o Append(buffer, LifeEntry) /\ buffer' = <<>>
                 ELSE buffer' = Append(buffer, LifeEntry) /\ file' = file
            /\ UNCHANGED <<log, dirty, disk, foreign>>
  /\ UNCHANGED <<lifeFrame, handle, locked, initialized, timer, nFlushes, nCompact>>

\* The timer fires: an autosave run (flush when dirty) or a compaction run.
LifeTimer ==
  /\ timer
  /\ IF IsJson
       THEN /\ nFlushes < MaxFlushes
            /\ nFlushes' = nFlushes + 1
            /\ Flushed
            /\ UNCHANGED nCompact
       ELSE /\ nCompact < MaxCompact
            /\ nCompact' = nCompact + 1
            /\ IF handle \in {"open", "closing", "stuck"}
                 THEN Flushed ELSE UNCHANGED <<disk, foreign, dirty, file, buffer>>
            /\ UNCHANGED nFlushes
  /\ UNCHANGED <<lifeFrame, handle, locked, initialized, timer, log>>

\* The rest of close() once the flushes are through: storage.close() clears
\* the timer and empties the list, the lock is released, and Database (not
\* LmcsDB) resets initialized.
CloseFinish ==
  /\ timer' = FALSE
  /\ log' = <<>>
  /\ locked' = FALSE
  /\ initialized' = IF klass = "Database" THEN FALSE ELSE initialized
  /\ handle' = "closed"

\* close() is called. Database.close calls storage.close(), where the JSON
\* storages clear the timer before they flush and the AOL flushes first;
\* LmcsDB.close awaits storage.flush() before storage.close(). With nothing
\* to write the call runs to its end.
LifeCloseCall ==
  /\ handle = "open"
  /\ IF Pending
       THEN /\ handle' = "closing"
            /\ timer' = IF klass = "Database" /\ IsJson THEN FALSE ELSE timer
            /\ UNCHANGED <<log, locked, initialized, disk, foreign, dirty, file, buffer>>
       ELSE Flushed /\ CloseFinish
  /\ UNCHANGED <<lifeFrame, nFlushes, nCompact>>

\* The flush close() awaits ends: it succeeded, or writeFile / appendFile threw
\* and close() rejects where it stands.
LifeCloseDone(ok) ==
  /\ handle = "closing"
  /\ IF ok
       THEN Flushed /\ CloseFinish
       ELSE /\ handle' = "stuck"
            /\ UNCHANGED <<timer, log, locked, initialized, disk, foreign, dirty, file, buffer>>
  /\ UNCHANGED <<lifeFrame, nFlushes, nCompact>>

\* A handle just constructed; the AOLStorage constructor has armed the
\* compaction timer when the interval is positive.
InitTimers ==
  /\ InitTx /\ InitLock /\ InitIndexes /\ InitAol
  /\ wpc = [w \in Writers |-> "idle"] /\ wreg = [w \in Writers |-> NoWrite]
  /\ wres = [w \in Writers |-> Undef] /\ nWrites = 0 /\ nReopen = 0
  /\ handle = "new"
  /\ klass \in {"Database", "LmcsDB"}
  /\ impl \in {"json.ts", "part_006", "aol.ts"}
  /\ interval \in {0, 5000}
  /\ foreign \in IF IsJson THEN BOOLEAN ELSE {FALSE}
  /\ disk = IF foreign THEN <<LifeEntry>> ELSE <<>>
  /\ log = <<>> /\ dirty = FALSE /\ flushing = FALSE
  /\ backend = IF IsJson THEN "json" ELSE "aol"
  /\ opened = {}
  /\ data = EmptyData
  /\ locked = FALSE
  /\ initialized = FALSE
  /\ timer = (~IsJson /\ interval > 0)
  /\ tampered = {} /\ IdleWorker /\ stream = NoStream
  /\ query = NoQuery /\ found = {} /\ streamed = {}

NextTimers ==
  \/ \E busy \in BOOLEAN : LifeInitialize(busy)
  \/ LifeAppend
  \/ LifeTimer
  \/ LifeCloseCall
  \/ \E ok \in BOOLEAN : LifeCloseDone(ok)

SpecTimers == InitTimers /\ [][NextTimers]_vars

\* ------------------------------------------------------------ concurrent writes on one document
\* A collection that holds the document { _id: "a", f: 0 }, inserted and
\* flushed by earlier calls, and no call in flight.
StoredDoc == MkDoc("a", 0)
InitUpd ==
  /\ InitTx /\ InitLock /\ InitHandle /\ InitIndexes /\ InitAol /\ InitExt
  /\ log = <<Entry("INSERT", "accounts", "a", {StoredDoc}, NoTx)>>
  /\ disk = log
  /\ dirty = FALSE /\ flushing = FALSE
  /\ backend = "json"
  /\ opened = {"accounts"}
  /\ data = [EmptyData EXCEPT !["accounts"]["a"] = {StoredDoc}]

\* Calls made without awaiting one another (Promise.all): an update whose
\* `updates` object has no key f (NoVal) changes other fields only.
NextUpd ==
  \/ \E w \in Writers, c \in Cols, i \in Ids, v \in 0..MaxVal : ScInsertStart(w, c, i, v)
  \/ \E w \in Writers : ScInsertFinish(w)
  \/ \E w \in Writers, c \in Cols, i \in Ids, v \in {NoVal} \cup (0..MaxVal) :
       ScUpdateStart(w, c, i, v)
  \/ \E w \in Writers : ScUpdateFinish(w)
  \/ \E w \in Writers, c \in Cols, i \in Ids : ScRemoveStart(w, c, i)
  \/ \E w \in Writers : ScRemoveFinish(w)
  \/ \E c \in Cols, u \in {"plain", "unique"} : ScCreateIndex(c, u)
  \/ JsonFlushWrite
  \/ JsonFlushDone

SpecUpd == InitUpd /\ [][NextUpd]_vars

\* ------------------------------------------------------------ transactions on a failing AOL
\* The flush an append awaited rejects (appendFile or the lock failed): the
\* buffer keeps its entries, append() rejects, and so does the call of the
\* transaction manager that awaited it.  begin() is outside the try block, so
\* transaction() rejects at once; a rejected commit() enters the catch block;
\* a rejected rollback() leaves the catch block with its own error.
AtAppendFail(t) ==
  /\ handle = "open"
  /\ apc[TaskOf(t)] = "flushWait"
  /\ areg[TaskOf(t)].kind = "append"
  /\ LockIsFree
  /\ apc' = [apc EXCEPT ![TaskOf(t)] = "idle"]
  /\ areg' = [areg EXCEPT ![TaskOf(t)] = NoCall]
  /\ pc' = [pc EXCEPT ![t] = IF pc[t] \in {"committing", "committed"}
                               THEN "rollback" ELSE "rejected"]
  /\ err' = [err EXCEPT ![t] = "StorageError"]
  /\ result' = [result EXCEPT ![t] = IF pc'[t] = "rejected" THEN "StorageError" ELSE @]
  /\ UNCHANGED <<ops, active, cursor, steps, atFrame, buffer, appended, returned, durable>>

NextTxFail ==
  \/ \E t \in Tx : AtBegin(t)
  \/ \E t \in Tx, c \in Cols, i \in Ids : AtTrxInsert(t, c, i, MaxVal)
  \/ \E t \in Tx, c \in Cols, i \in Ids : AtTrxDelete(t, c, i)
  \/ \E t \in Tx : AtBodyReturn(t)
  \/ \E t \in Tx : AtBodyThrow(t)
  \/ \E t \in Tx : AtCommitAppend(t)
  \/ \E t \in Tx : AtCommitEnvelope(t)
  \/ \E t \in Tx : AtCommitReturn(t)
  \/ \E t \in Tx : AtAppendFail(t)
  \/ \E t \in Tx : AtRollback(t)
  \/ \E t \in Tx : AtReject(t)
  \/ \E k \in Tasks : FlushWrite(k)
  \/ \E k \in Tasks : FlushReset(k)

SpecTxFail == InitAolDb /\ [][NextTxFail]_vars

\* ------------------------------------------------------------ whole-file storages and keys
\* The storages that rewrite their file from the entry list: BinaryStorage
\* (unnamed/part_011) and the two JSONStorage versions.  `foreign` says that
\* the file was encrypted under a key this handle does not hold, so decrypt
\* throws on it.
IsBinary == impl = "part_011"

\* BinaryStorage.initialize: deserialize() catches every error and returns [];
\* no timer.  The JSON versions are those of StorageInitialize.
KeyLoad ==
  IF IsBinary
    THEN [ok |-> TRUE, data |-> IF foreign THEN <<>> ELSE disk, timer |-> FALSE]
    ELSE StorageInitialize

\* flush(): BinaryStorage serialises and writes its list whatever it holds;
\* the JSON versions return when the list is not dirty.  What is written is
\* encrypted with the key of this handle.
KeyWrites == IsBinary \/ dirty
KeyFlushed ==
  /\ disk' = IF KeyWrites THEN log ELSE disk
  /\ foreign' = IF KeyWrites THEN FALSE ELSE foreign
  /\ dirty' = FALSE

keyFrame == <<lifeFrame, buffer, file, nCompact>>

\* initialize() of the database handle: lock, then storage.initialize().
KeyInitialize ==
  /\ handle = "new"
  /\ LET st == KeyLoad IN
       /\ handle' = IF st.ok THEN "open" ELSE "failed"
       /\ locked' = (st.ok \/ klass = "Database")
       /\ initialized' = st.ok
       /\ timer' = st.timer
       /\ log' = st.data
  /\ UNCHANGED <<keyFrame, disk, dirty, foreign, nFlushes>>

\* storage.append(entry): BinaryStorage pushes and flushes; json.ts flushes
\* when no timer handle is set, part_006 never.
KeyAppend ==
  /\ handle = "open"
  /\ Len(log) < MaxLines
  /\ log' = Append(log, LifeEntry)
  /\ IF IsBinary \/ (impl = "json.ts" /\ ~timer)
       THEN disk' = log' /\ dirty' = FALSE /\ foreign' = FALSE
       ELSE dirty' = TRUE /\ UNCHANGED <<disk, foreign>>
  /\ UNCHANGED <<keyFrame, handle, locked, initialized, timer, nFlushes>>

\* flush() called by the client, or by the autosave timer on a dirty list.
KeyFlush ==
  /\ handle = "open"
  /\ nFlushes < MaxFlushes
  /\ nFlushes' = nFlushes + 1
  /\ KeyFlushed
  /\ UNCHANGED <<keyFrame, handle, locked, initialized, timer, log>>

\* close(): LmcsDB.close awaits storage.flush() and storage.close(),
\* Database.close calls storage.close(); every storage.close() flushes, drops
\* the list, and the lock is released.
KeyClose ==
  /\ handle = "open"
  /\ KeyFlushed
  /\ CloseFinish
  /\ UNCHANGED <<keyFrame, nFlushes>>

\* A handle just constructed over a path with no file, with a file of its own
\* key, or with a file of another key.
InitKey ==
  /\ InitTx /\ InitLock /\ InitIndexes /\ InitAol
  /\ wpc = [w \in Writers |-> "idle"] /\ wreg = [w \in Writers |-> NoWrite]
  /\ wres = [w \in Writers |-> Undef] /\ nWrites = 0 /\ nReopen = 0
  /\ handle = "new"
  /\ klass \in {"Database", "LmcsDB"}
  /\ impl \in {"part_011", "part_006", "json.ts"}
  /\ interval \in {0, 5000}
  /\ foreign \in BOOLEAN
  /\ disk \in IF foreign THEN {<<LifeEntry>>} ELSE {<<>>, <<LifeEntry>>}
  /\ log = <<>> /\ dirty = FALSE /\ flushing = FALSE
  /\ backend = "json"
  /\ opened = {}
  /\ data = EmptyData
  /\ locked = FALSE
  /\ initialized = FALSE
  /\ timer = FALSE
  /\ tampered = {} /\ IdleWorker /\ stream = NoStream
  /\ query = NoQuery /\ found = {} /\ streamed = {}

NextKey ==
  \/ KeyInitialize
  \/ KeyAppend
  \/ KeyFlush
  \/ KeyClose

SpecKey == InitKey /\ [][NextKey]_vars

\* ------------------------------------------------------------ AsyncWriteWorker
\* persistence/AsyncWriteWorker.ts.  The n-th enqueue() call carries payload n
\* (a non-empty string).  Each action is one turn of the event loop: a call by
\* the client, the settling of a writeFn promise, a setImmediate callback.
wwFrame == <<txVars, stVars, colVars, dbVars, lmVars, buffer, file, eol, appended, apc,
             areg, returned, durable, recovered, nFlushes, nCompact, impl, sumVars,
             qryVars, lifeVars>>

\* process(): return when nothing is pending; otherwise set writing, take the
\* pending payload and call writeFn with it (the function then awaits).
Process(pending) ==
  IF pending = {}
    THEN UNCHANGED <<writing, inFlight>> /\ pendingPayload' = pending
    ELSE /\ writing' = TRUE
         /\ inFlight' = inFlight \cup pending
         /\ pendingPayload' = {}

\* enqueue(data): the payload replaces the pending one; process() is called
\* unless a write is marked as running.
Enqueue ==
  /\ enqueuedCount < MaxEnqueue
  /\ enqueuedCount' = enqueuedCount + 1
  /\ IF writing
       THEN pendingPayload' = {enqueuedCount'} /\ UNCHANGED <<writing, inFlight>>
       ELSE Process({enqueuedCount'})
  /\ UNCHANGED <<wwFrame, resolveIdle, immediates, flushers>>

\* A writeFn promise settles (resolved or rejected alike): the finally block
\* clears writing, then schedules process() when a payload is pending, or else
\* calls and forgets resolveIdle.
WriteSettles(p) ==
  /\ p \in inFlight
  /\ inFlight' = inFlight \ {p}
  /\ writing' = FALSE
  /\ IF pendingPayload # {}
       THEN /\ immediates' = immediates + 1
            /\ UNCHANGED <<resolveIdle, flushers>>
       ELSE /\ flushers' = [f \in Flushers |-> IF f \in resolveIdle THEN "resolved"
                                                ELSE flushers[f]]
            /\ resolveIdle' = {}
            /\ UNCHANGED immediates
  /\ UNCHANGED <<wwFrame, pendingPayload, enqueuedCount>>

\* The callback given to setImmediate runs: process().
Immediate ==
  /\ immediates > 0
  /\ immediates' = immediates - 1
  /\ Process(pendingPayload)
  /\ UNCHANGED <<wwFrame, resolveIdle, enqueuedCount, flushers>>

\* flush() called by f: with a write running or a payload pending the call
\* stores its resolve function in resolveIdle (replacing the one stored there)
\* and starts process() when no write is marked as running; otherwise it
\* resolves at once.
WorkerFlush(f) ==
  /\ flushers[f] = "idle"
  /\ IF writing \/ pendingPayload # {}
       THEN /\ resolveIdle' = {f}
            /\ flushers' = [flushers EXCEPT ![f] = "waiting"]
            /\ IF ~writing THEN Process(pendingPayload)
                           ELSE UNCHANGED <<writing, inFlight, pendingPayload>>
       ELSE /\ flushers' = [flushers EXCEPT ![f] = "resolved"]
            /\ UNCHANGED <<resolveIdle, writing, inFlight, pendingPayload>>
  /\ UNCHANGED <<wwFrame, enqueuedCount, immediates>>

InitWorker ==
  /\ InitTx /\ InitLock /\ InitHandle /\ InitIndexes /\ InitAol /\ InitExt
  /\ log = <<>> /\ dirty = FALSE /\ flushing = FALSE /\ disk = <<>>
  /\ backend = "json"
  /\ opened = {}
  /\ data = EmptyData

NextWorker ==
  \/ Enqueue
  \/ \E p \in 1..MaxEnqueue : WriteSettles(p)
  \/ Immediate
  \/ \E f \in Flushers : WorkerFlush(f)

SpecWorker == InitWorker /\ [][NextWorker]_vars

\* ------------------------------------------------------------ claims on Database
Addressed(t) == {<<ops[t][k].collection, ops[t][k].id>> : k \in 1..Len(ops[t])}

\* C1: when the body of transaction(fn) throws, the call rejects with the very
\* error the body threw, and at that moment every document the body addressed
\* through trx.insert / trx.update / trx.delete holds the value it had when the
\* transaction began (an updated balance is unchanged, an inserted document
\* does not exist).
C1_RollbackRestores ==
  [][\A t \in Tx :
       (pc[t] = "rollback" /\ pc'[t] = "rejected") =>
          /\ result'[t] = err[t]
          /\ \A a \in Addressed(t) : data'[a[1]][a[2]] = snap[t][a[1]][a[2]]]_vars

\* A body updated an existing document to another value and inserted a new
\* one, then threw, and the call has been rejected.
C1_Witness ==
  \E t \in Tx :
    /\ pc[t] = "rejected"
    /\ result[t] = "BodyError"
    /\ \E k \in 1..Len(ops[t]) :
         /\ ops[t][k].type = "update"
         /\ data[ops[t][k].collection][ops[t][k].id] # Absent
         /\ ops[t][k].newData # data[ops[t][k].collection][ops[t][k].id]
    /\ \E k \in 1..Len(ops[t]) :
         /\ ops[t][k].type = "insert"
         /\ data[ops[t][k].collection][ops[t][k].id] = Absent

CounterValue(d) == (CHOOSE x \in d[CounterCol][CounterId] : TRUE).f
InitialCounter == (CHOOSE x \in log[1].data : TRUE).f

\* C4: once all NumTx concurrently started read-and-increment transactions have
\* resolved, the counter equals its initial value plus NumTx.
C4_NoLostUpdate ==
  (\A t \in Tx : pc[t] = "resolved") =>
     CounterValue(data) = InitialCounter + NumTx

\* All transactions were pending at the same time and all have resolved.
C4_Witness ==
  /\ \A t \in Tx : pc[t] = "resolved"
  /\ \E t \in Tx : waitsOn[t] # NoTx
  /\ CounterValue(data) = InitialCounter + NumTx

\* ------------------------------------------------------------ claims on LmcsDB
\* The operation at position k is the last one the list holds for its document.
LastFor(os, k) ==
  \A j \in (k + 1)..Len(os) :
     ~(os[j].collection = os[k].collection /\ os[j].id = os[k].id)

\* What findOne returns afterwards is what the operations recorded.
Reflected(d, os) ==
  \A k \in 1..Len(os) :
     LastFor(os, k) =>
        d[os[k].collection][os[k].id] =
           (IF os[k].type = "delete" THEN Absent ELSE os[k].newData)

\* C2: at the step at which transaction(fn) resolves, every operation recorded
\* through the context is reflected in the in-memory collection it names.
C2_CommitVisible ==
  [][\A t \in Tx :
       (pc[t] # "resolved" /\ pc'[t] = "resolved") => Reflected(data', ops[t])]_vars

\* Transactions between their BEGIN and their COMMIT or ROLLBACK.
Executing == {t \in Tx : pc[t] \in {"body", "committing", "rollback"}}

\* C3: at most one transaction body is executing at any time (with a single
\* body at a time, bodies start in the order of the calls).
C3_SerialBodies == Cardinality(Executing) <= 1

\* Transactions of a log that have a BEGIN and no COMMIT.
HasEnvelope(es, o, t) ==
  \E k \in 1..Len(es) : es[k].collection = TxCollection /\ es[k].op = o /\ es[k].id = t
Uncommitted(es) == {t \in Tx : HasEnvelope(es, "BEGIN", t) /\ ~HasEnvelope(es, "COMMIT", t)}

\* C5: the collections a reopen rebuilds are those obtained from the log with
\* every entry of a transaction that has BEGIN but no COMMIT left out.
C5_UncommittedInvisible ==
  [][(handle # "open" /\ handle' = "open") =>
        data' = Replay(EmptyData,
                       SelectSeq(disk, LAMBDA e : e.txId \notin Uncommitted(disk)))]_vars

\* C10: for a unique index on f, no two stored documents of the collection
\* have the same defined value of f.
C10_UniqueIndex ==
  \A c \in Cols :
     indexDefs[c] = "unique" =>
        \A i, j \in Ids :
           \A di \in data[c][i], dj \in data[c][j] :
              (i # j /\ di.f # NoVal) => di.f # dj.f

\* C6: a new handle initialized after close() exposes exactly the documents
\* the closed handle held, after any sequence of insert, update and remove
\* made one after the other, without transactions (here on the json backend).
C6_CloseReopenPreserves ==
  [][(/\ handle = "closed" /\ handle' = "open"
      /\ \A t \in Tx : pc[t] = "idle"
      /\ \A w \in Writers : w > 1 => wres[w] = Undef) =>
        data' = data]_vars

\* ------------------------------------------------------------ claims on AOLStorage
OnDisk(n) == \E k \in 1..Len(file) : file[k] = <<appended[n]>>

\* C7: once append(e) has returned and a flush() called afterwards has
\* returned, e is in the file (as long as no compaction has rewritten it).
C7_FlushedOnDisk ==
  nCompact = 0 => \A n \in durable : OnDisk(n)

IsPrefix(s, t) == Len(s) <= Len(t) /\ \A k \in 1..Len(s) : s[k] = t[k]

\* C8: what a reopen after a crash reads from the file is a prefix of the
\* sequence of appended entries (no compaction involved).
C8_CrashYieldsPrefix ==
  [][(handle = "crashed" /\ handle' = "open" /\ nCompact = 0) =>
        IsPrefix(recovered', appended)]_vars

\* The last entry of the log for a document.
LastOf(es, c, i) ==
  LET hits == {k \in 1..Len(es) : es[k].collection = c /\ es[k].id = i}
  IN IF hits = {} THEN Absent
     ELSE {es[CHOOSE k \in hits : \A j \in hits : j <= k]}

\* The compacted log holds, for each document whose last entry is an INSERT or
\* UPDATE, that entry once, and nothing else.
LastWriters(before, after) ==
  /\ \A k \in 1..Len(after) :
        /\ after[k].op \in {"INSERT", "UPDATE"}
        /\ LastOf(before, after[k].collection, after[k].id) = {after[k]}
        /\ \A j \in 1..Len(after) :
              (after[j].collection = after[k].collection /\ after[j].id = after[k].id) => j = k
  /\ \A c \in Cols, i \in Ids :
        \A e \in LastOf(before, c, i) :
           e.op \in {"INSERT", "UPDATE"} => \E k \in 1..Len(after) : after[k] = e

\* C9: at the step at which compact() replaces the file, replaying the entries
\* of the new file gives the collection state that replaying the log read by
\* the compaction gives, and the new file holds exactly the last INSERT/UPDATE
\* of every document not deleted afterwards (no DELETE, no envelope).
C9_CompactPreservesState ==
  [][\A k \in Tasks :
       (apc[k] = "write" /\ areg'[k].kind = "compacted") =>
          /\ Replay(EmptyData, ReadLines(file')) = Replay(EmptyData, areg[k].read)
          /\ LastWriters(areg[k].read, ReadLines(file'))]_vars

\* A compaction has read insert a, update a, delete a, insert b and left the
\* single entry of b in the file.
C9_Witness ==
  \E k \in Tasks :
    /\ apc[k] = "idle"
    /\ areg[k].kind = "compacted"
    /\ Len(areg[k].read) = 4
    /\ areg[k].read[1].op = "INSERT" /\ areg[k].read[1].id = "a"
    /\ areg[k].read[2].op = "UPDATE" /\ areg[k].read[2].id = "a"
    /\ areg[k].read[3].op = "DELETE" /\ areg[k].read[3].id = "a"
    /\ areg[k].read[4].op = "INSERT" /\ areg[k].read[4].id = "b"
    /\ file = <<<<areg[k].read[4]>>>>

\* ------------------------------------------------------------ claims on SecureCollection
\* A SecureCollection call made in this step has appended its entry.
Appends(w, kind) == wpc[w] = "idle" /\ wpc'[w] = kind

\* C11: insert of a document whose _id is already a key of the data map never
\* appends, and the call that fails with the duplicate-id ValidationError
\* leaves the data map, the indexes and the storage log as they were.
C11_DuplicateIdRejected ==
  [][\A w \in Writers :
       /\ Appends(w, "insert") => data[wreg'[w].col][wreg'[w].id] = Absent
       /\ (nWrites' = nWrites + 1 /\ wres'[w] = "DuplicateId" /\ wpc'[w] = "idle"
             /\ wpc[w] = "idle") =>
              (log' = log /\ data' = data /\ indexes' = indexes)]_vars

\* An insert has been rejected for its id while the document inserted first is
\* still the one stored, and the log holds the first INSERT only.
C11_Witness ==
  /\ \E w \in Writers : wres[w] = "DuplicateId"
  /\ \E c \in Cols, i \in Ids : data[c][i] # Absent
  /\ Len(log) = 1 /\ log[1].op = "INSERT"

\* Some stored document of collection c carries value v in the indexed field.
StoredValue(c, v) == \E j \in Ids : \E dj \in data[c][j] : dj.f = v

\* C12: an insert whose value for the uniquely indexed field equals that of a
\* stored document is rejected before anything is written: no such insert
\* appends its entry.
C12_UniqueValueRejected ==
  [][\A w \in Writers :
       (Appends(w, "insert") /\ indexDefs[wreg'[w].col] = "unique") =>
          \A d \in wreg'[w].new : d.f # NoVal => ~StoredValue(wreg'[w].col, d.f)]_vars

\* No collection call and no transaction is in flight on the open handle.
Quiescent ==
  /\ handle = "open"
  /\ \A w \in Writers : wpc[w] = "idle"
  /\ \A t \in Tx : ~InFlight(t)

\* C13: at every quiescent point the documents held in memory are those
\* obtained by replaying the storage's entries from the start.
C13_MemoryEqualsReplay == Quiescent => data = Replay(EmptyData, log)

\* ------------------------------------------------------------ claims on commit
\* C14: when commit(txId) returns on the AOL backend, every operation entry of
\* the transaction and its COMMIT envelope are in the file.
C14_CommitDurable ==
  [][\A t \in Tx :
       (pc[t] = "committed" /\ pc'[t] = "resolved") =>
          \A n \in 1..Len(appended) :
             (appended[n].txId = t /\ appended[n].op # "BEGIN") => OnDisk(n)]_vars

\* The entries a storage holds, as readStream would return them.
Unstamp(e) == Entry(e.op, e.collection, e.id, e.data, e.txId)
StorageLog ==
  IF backend = "aol"
    THEN LET es == ReadLines(file) \o buffer IN [k \in 1..Len(es) |-> Unstamp(es[k])]
    ELSE log

\* BEGIN, one entry per recorded operation in recording order, COMMIT.
CommittedEntries(t) ==
  <<Envelope("BEGIN", t)>> \o [k \in 1..Len(ops[t]) |-> CommitEntry(t, ops[t][k])]
                          \o <<Envelope("COMMIT", t)>>

\* C15: for every committed transaction the entries of the storage log that
\* carry its txId are, in this order, its BEGIN envelope, one INSERT / UPDATE /
\* DELETE entry per recorded operation in recording order, and its COMMIT
\* envelope (read while no storage call is pending).
C15_CommitOrder ==
  \A t \in Tx :
     (pc[t] = "resolved" /\ \A k \in Tasks : apc[k] = "idle") =>
        SelectSeq(StorageLog, LAMBDA e : e.txId = t) = CommittedEntries(t)

\* ------------------------------------------------------------ claims on recovery
\* C16: once initialize() has run recover(), no transaction of the storage log
\* has a BEGIN without a COMMIT or ROLLBACK: a second recover() on that log
\* would find no open transaction.
C16_RecoverClosesOpenTxs ==
  [][(handle # "open" /\ handle' = "open") => PendingTxs(log') = <<>>]_vars

\* ------------------------------------------------------------ claims on readStream
\* C17: readStream yields every entry appended before it was called, buffered
\* ones included, once each and in the order of the append calls: what it
\* yields starts with those entries and is a prefix of the appended sequence.
C17_ReadStreamComplete ==
  [][\A k \in Tasks :
       (apc[k] = "stream" /\ areg'[k].kind = "streamed") =>
          /\ IsPrefix(SubSeq(appended, 1, areg[k].n), areg'[k].read)
          /\ IsPrefix(areg'[k].read, appended)]_vars

\* ------------------------------------------------------------ claims on document ids
\* C18: every document stored in a data map under key k has _id equal to k.
C18_IdEqualsKey ==
  \A c \in Cols, i \in Ids : \A d \in data[c][i] : d._id = i

\* ------------------------------------------------------------ claims on the context
\* C19: when a body has called trx.update(c, id, d1) and then
\* trx.update(c, id, d2), the second update reads the committed document merged
\* with d1, so at the step at which the transaction resolves the document is
\* the first update's result merged with d2 (here d2 = { _id: id }: the payload
\* written by d1 is kept).
C19_ReadYourWrites ==
  [][\A t \in Tx :
       (pc[t] = "committed" /\ pc'[t] = "resolved" /\ Len(ops[t]) = 2) =>
          data'[ops[t][1].collection][ops[t][1].id] =
             {Merge(d1, MkDoc(ops[t][1].id, NoVal)) : d1 \in ops[t][1].newData}]_vars

\* ------------------------------------------------------------ claims on the lock
\* C20: every transaction() call that waits for the lock eventually gets its
\* turn, also when an earlier transaction's body throws or its begin, commit
\* or rollback fails.
C20_EveryCallGetsTurn ==
  \A t \in Tx : (pc[t] = "waiting") ~> (pc[t] # "waiting")

\* A call runs its body after the call it queued behind was rejected by a
\* failed rollback.
C20_Witness ==
  \E t \in Tx :
    /\ pc[t] = "body"
    /\ waitsOn[t] # NoTx
    /\ pc[waitsOn[t]] = "rejected"
    /\ result[waitsOn[t]] = "RollbackError"

\* ------------------------------------------------------------ claims on the AOL checksums
\* C21: with checksums enabled, every entry written by append and left
\* unmodified on disk passes the checksum comparison of readStream and is
\* yielded: a readStream read to its end yields every line that stands before
\* the first line changed on disk.
C21_ChecksumRoundTrip ==
  [][SumRead =>
       \A n \in DOMAIN file' :
         (\A m \in 1..n : m \notin tampered) =>
           \E k \in DOMAIN stream'.yielded : stream'.yielded[k] = n]_vars

\* The stored checksum of a line is not the digest of the line's other fields.
Mismatch(line) ==
  LET entry == Parse(line) IN
  /\ Get(entry, "op") \subseteq {"INSERT", "UPDATE", "DELETE"}
  /\ Get(entry, "checksum") # {Sha256(Stringify(Delete(entry, "checksum")))}

\* C22: on readStream with checksums enabled, a data entry (INSERT / UPDATE /
\* DELETE) whose stored checksum differs from the recomputed one raises
\* CorruptionError: a readStream over a file holding such a line ends with
\* that error, and the line is neither yielded nor skipped.
C22_MismatchRaises ==
  [][SumRead =>
       \A n \in DOMAIN file' :
         Mismatch(file'[n]) =>
           /\ stream'.error = {"CorruptionError"}
           /\ n \notin stream'.skipped
           /\ \A k \in DOMAIN stream'.yielded : stream'.yielded[k] # n]_vars

\* ------------------------------------------------------------ claims on queries
\* The filters made of field keys and $or, and what they mean: every
\* top-level key must match; a field whose value is an operator map matches
\* when every operator of the map holds, $or when some sub-filter matches.
Stated(filter) == \A n \in DOMAIN filter : filter[n][1] \in {"price", "category", "$or"}

RECURSIVE Holds(_, _)
Holds(doc, filter) ==
  \A n \in DOMAIN filter :
    LET key == filter[n][1]
        value == filter[n][2]
    IN CASE key = "$or" -> \E k \in DOMAIN value.v : Holds(doc, value.v[k])
         [] value.t = "obj" ->
              \A k \in DOMAIN value.v :
                Compare(value.v[k][1], GetNestedValue(doc, key), value.v[k][2])
         [] OTHER -> StrictEquals(GetNestedValue(doc, key), value)

\* C24: a filter matches a document only if every top-level key matches,
\* where a field key whose value is an operator map matches exactly when every
\* operator in the map holds and $or matches when any sub-filter matches: so
\* findAll with such a filter and no sort, skip or limit returns exactly the
\* documents the filter holds for (for {price: {$gt: 1000}} the two documents
\* 1999 and 20000).
C24_FilterMatches ==
  \A r \in found, f \in query.filter :
    (Stated(f) /\ Len(query.sort) = 0 /\ query.skip = 0 /\ query.limit = 0) =>
      r = SelectSeq(Products, LAMBDA doc : Holds(doc, f))

C23_LockWhileInitialized ==
  handle # "closing" =>
    /\ locked <=> initialized
    /\ handle \in {"closed", "failed"} => (~locked /\ ~initialized)

\* C26: initializing the JSON backend on a file that was encrypted with a
\* different key does not throw: initialize resolves and the storage starts
\* with an empty entry list.
C26_WrongKeyStartsEmpty ==
  [][(IsJson /\ foreign /\ ~locked /\ LifeInitialize(FALSE)) =>
       (handle' = "open" /\ log' = <<>>)]_vars

\* C27: with autosaveInterval 0 on the JSON backend no autosave timer runs
\* and every append triggers an immediate flush, so the file contains the
\* appended entry when append returns.
C27_ZeroIntervalFlushes ==
  [][(IsJson /\ interval = 0) =>
       /\ ~LifeTimer
       /\ LifeAppend => disk' = log']_vars

\* C28: after close() has been called on a storage or database - whether its
\* final flush succeeds or fails - no further automatic compaction or
\* autosave run starts.
C28_NoRunAfterClose ==
  [][LifeTimer => handle \notin {"closing", "closed", "stuck"}]_vars

\* ------------------------------------------------------------ claims on collection writes
\* C29: before commit(txId) is called the log contains no INSERT / UPDATE /
\* DELETE entry carrying that txId, whichever API recorded the operation
\* (TransactionContext or a collection write called with a txId), so a
\* rolled-back transaction leaves only its envelopes in the log.
C29_NoOpEntryBeforeCommit ==
  \A t \in Tx :
    pc[t] \in {"body", "rollback", "rejected"} =>
      \A k \in DOMAIN log :
        log[k].txId = t => log[k].op \notin {"INSERT", "UPDATE", "DELETE"}

C31_MatchSetStillCurrent ==
  [][\A w \in Writers :
       (wpc[w] \in {"update", "remove"} /\ wpc'[w] = "idle" /\ wres'[w] = "1") =>
         data[wreg[w].col][wreg[w].id] = wreg[w].old]_vars

\* ------------------------------------------------------------ claims on concurrent appends and flushes
\* C32: under any interleaving of append and flush calls on the AOL backend
\* (no compaction, no crash), every appended entry is still waiting in the
\* buffer or is in the file, and no entry is in the file twice: none is
\* discarded when the buffer is reset after a flush and none is written by two
\* flushes.
C32_EveryEntryOnce ==
  (nCompact = 0 /\ handle = "open" /\ nReopen = 0) =>
    \A n \in 1..Len(appended) :
      /\ OnDisk(n) \/ \E k \in 1..Len(buffer) : buffer[k] = appended[n]
      /\ Cardinality({k \in 1..Len(file) : file[k] = <<appended[n]>>}) <= 1

\* ------------------------------------------------------------ claims on the line structure of the AOL
\* C33: readStream yields every entry the file holds - those that survived a
\* compaction and those appended and flushed after it: the compacted file ends
\* with a line terminator, so the first newly appended line is never merged
\* into the last compacted line.
C33_CompactedFileReadable ==
  \A k \in 1..Len(file) : \A j \in 1..Len(file[k]) :
    \E m \in 1..Len(ReadLines(file)) : ReadLines(file)[m] = file[k][j]

\* ------------------------------------------------------------ claims on appends during a compaction
\* C34: an entry that is appended and flushed while a compaction is between
\* reading the log and renaming the temporary file over it is still in the
\* log once the compaction has replaced the file (stated for the INSERT and
\* UPDATE entries in the file that the compaction had not read).
C34_CompactionKeepsLateAppends ==
  [][\A k \in Tasks :
       (apc[k] = "write" /\ areg'[k].kind = "compacted") =>
         \A j \in 1..Len(file) : \A x \in 1..Len(file[j]) :
           LET e == file[j][x]
           IN (/\ \A m \in 1..Len(areg[k].read) : areg[k].read[m] # e
               /\ e.op \in {"INSERT", "UPDATE"}) =>
                 \E j2 \in 1..Len(file') : \E x2 \in 1..Len(file'[j2]) : file'[j2][x2] = e]_vars

\* ------------------------------------------------------------ claims on index contents
\* C35: in every reachable state, for every index of a collection, a document
\* id is listed under a value key if and only if the stored document with that
\* id currently has that value for the indexed field (no stored document is
\* missing from the index, no stale id remains under a previous value).
C35_IndexMatchesData ==
  \A c \in Cols :
    indexDefs[c] # "none" =>
      \A i \in Ids : \A v \in 0..MaxVal :
        (<<ValueKey(v), i>> \in indexes[c]) <=> (\E d \in data[c][i] : d.f = v)

\* ------------------------------------------------------------ claims on the JSON dirty flag
\* C36: on the JSON backend the dirty flag is false only when the file holds
\* every entry appended so far, so an entry appended while a flush is writing
\* the file is still written by a later flush or by close.
C36_CleanMeansWritten ==
  (backend = "json" /\ handle = "open" /\ ~dirty) => disk = log

\* ------------------------------------------------------------ claims on terminal envelopes
\* C37: for every transaction id the log contains at most one terminal
\* envelope - never both a COMMIT and a ROLLBACK - also when commit fails
\* part-way.
C37_OneTerminalEnvelope ==
  LET es == IF backend = "aol" THEN ReadLines(file) ELSE log
  IN \A t \in Tx :
       Cardinality({k \in 1..Len(es) :
                      /\ es[k].collection = TxCollection
                      /\ es[k].id = t
                      /\ es[k].op \in {"COMMIT", "ROLLBACK"}}) <= 1

\* ------------------------------------------------------------ claims on a wrong key
\* C38: opening a persistent database with a wrong encryption key (the load
\* fails and the state starts empty) and then closing it without any write
\* leaves the file on disk unchanged, so that its data can still be read with
\* the right key.
C38_WrongKeyKeepsFile ==
  [][(foreign /\ handle = "open" /\ log = <<>> /\ KeyClose) =>
       (disk' = disk /\ foreign')]_vars

\* ------------------------------------------------------------ claims on the write worker
\* C39: the AsyncWriteWorker never has more than one writeFn call in flight
\* (payloads enqueued while a write is in flight wait for a single following
\* write).
C39_OneWriteInFlight == Cardinality(inFlight) <= 1

\* C40: every call to AsyncWriteWorker.flush() resolves once the pending
\* writes have finished: when no write is in flight, no payload is pending and
\* no process() is scheduled, no flush() call is still waiting - also with two
\* flush() calls outstanding at the same time.
C40_FlushResolves ==
  (inFlight = {} /\ pendingPayload = {} /\ immediates = 0) =>
    \A f \in Flushers : flushers[f] # "waiting"

====
